---- MODULE Spec2Model ----
(***************************************************************************)
(* TeleClean: the sweep of the Executor (bot/handlers/executor.py) over    *)
(* the active chats of the registry (bot/database/database.py), with the   *)
(* progress alert (bot/alerts/update.py).                                  *)
(*                                                                         *)
(* One run of process_all_chats is a sequential control flow; pc is its    *)
(* position.  Every call of a collaborator (Telegram API, MongoDB) is a    *)
(* step whose outcome is chosen nondeterministically among the outcomes    *)
(* the call can have.                                                      *)
(***************************************************************************)
EXTENDS Integers, Sequences, FiniteSets, TLC

(***************************************************************************)
(* Bounds of the model.                                                    *)
(***************************************************************************)
\* at most this many chat documents have active = True when a run starts
MaxChats == 2
\* at most this many add_chat / remove_chat calls are made by the chat
\* handlers
MaxEvents == 4
\* at most this many new messages reach the queue handler
MaxArrivals == 2
\* at most this many /clear and /settimeout commands are handled
MaxCommands == 1
\* time goes on during at most this many sleeps of deletion_task
MaxSleeps == 2
\* at most this many collaborator calls of one run fail (Telegram API calls
\* that raise, inserts of the audit log that raise)
MaxFaults == 2
\* the seconds time.time() advances between two readings are at most
\* MaxSweepSeconds
MaxSweepSeconds == 3

(***************************************************************************)
(* Program constants.                                                      *)
(***************************************************************************)
\* executor.py:184  message_ids = range(1, 1000)
MessageIdLimit == 1000
\* executor.py:288  message_id < 300: older than both thresholds
OldIdLimit == 300
\* executor.py:290  message_id < 600: older than the user threshold only
MidIdLimit == 600
\* executor.py:278  message_id % 10 == 0: the author is an exempt user
ExemptUserModulus == 10
\* config.py:18, config.py:19, config.py:36: the defaults of the configuration
DefaultUserMessages == 60
DefaultAllMessages == 1440
DefaultUpdateInterval == 5

(***************************************************************************)
(* The world the run acts on.                                              *)
(***************************************************************************)
\* The chats a registry can hold, in the order get_all_active_chats returns
\* them: the botpm collection, then chats, then channels (database.py:141).
RegistryOrder == <<7, -1002, -1001>>
ChatIds == {RegistryOrder[i] : i \in 1..Len(RegistryOrder)}
\* The id of the supergroup a group was migrated to (e.new_chat_id,
\* analyzer.py:81).  Only verify_chat_records adds it to the registry.
NewChatId == -1003
\* Every id a document can have, in the order get_all_active_chats lists them.
DocumentOrder == RegistryOrder \o <<NewChatId>>
DocumentIds == ChatIds \cup {NewChatId}

\* The collection a chat document lives in decides the "type" that
\* get_all_active_chats writes into it (database.py:134-139).
StoredType(id) ==
    CASE id = 7     -> "private"
      [] id = -1001 -> "channel"
      [] OTHER      -> "group"

\* chat.type as bot.get_chat reports it.
TelegramType(id) ==
    CASE id = 7     -> "private"
      [] id = -1001 -> "channel"
      [] OTHER      -> "supergroup"

\* EXCEPTIONS as the operator can configure it (config.py:21-27): empty, a
\* channel id in the configured form (negative), the same id without sign.
ExceptionChoices == {{}, {-1001}, {1001}}

\* The ids of range(1, 1000) whose examination is modelled: every class of
\* _should_delete_message (exempt / old / middle band / new, user / bot) and
\* both sides of the two id limits.  The sweep walks them in range order.
SampledIds == {1, 2, 10, 299, 301, 302, 599, 600, 601, 602}

Results == {"yes", "no", "dryrun", "error"}

\* Outcomes of bot.delete_message: success, the four error classes the loop
\* names (executor.py:222, 228), another TelegramError (RetryAfter,
\* ChatMigrated, ...), an exception that is no TelegramError.
DeleteOutcomes ==
    {"Success", "BadRequest", "Forbidden", "NetworkError", "TimedOut",
     "TelegramError", "Exception"}

abs(n) == IF n < 0 THEN -n ELSE n

VARIABLES
    config,            \* Executor.config: dry_run, exceptions, thresholds
    registry,          \* the chat ids whose document has active = True
    faults,            \* collaborator calls of the run that failed so far
    pc,                \* position of the run in process_all_chats
    active_chats,      \* the list fetched at executor.py:86
    index,             \* enumerate index of the for loop (chats finished)
    stats,             \* Executor.stats
    chat_stats,        \* chat_stats of the running process_chat
    bot_member,        \* per chat, what chat.get_member told process_chat
    msg_idx,           \* messages of message_ids already examined
    current_time,      \* the last reading of time.time()
    last_update_time,  \* executor.py:100, 125
    message_id,        \* UpdateAlert.message_id (0: None)
    deletion_history,  \* documents of history.deletion, counted per chat/result
    swept,             \* the chat ids process_chat was called with, in order
    ends,              \* how each of these calls ended: "returned" or "raised"
    delete_calls,      \* bot.delete_message calls of the run, per chat
    delete_ok,         \* bot.delete_message calls of the run that succeeded
    log_calls,         \* db.log_deletion calls of the run, per chat/result
    last,              \* the message examined last and what was done to it
    clock,               \* the clock time.time() reads
    fetch,             \* how get_all_active_chats ended: "ok" or "failed"
    resolve_error,     \* the error bot.get_chat / chat.get_member raised in
                       \* the current process_chat ("none": none)
    called,            \* the (chat id, message id) pairs delete_message got
    snapshots,         \* the calls of UpdateAlert.send_update, in order
    outside            \* the state of the part of the program outside the
                       \* sweep that a specification is about: the
                       \* registry and its handlers, one run of
                       \* run_cleaner, or the operands of a merge

env_vars == <<config, registry>>
run_vars == <<active_chats, index, stats>>
chat_vars == <<chat_stats, bot_member, msg_idx>>
alert_vars == <<clock, current_time, last_update_time, message_id>>
audit_vars == <<deletion_history, swept, ends, delete_calls, delete_ok, log_calls, last>>
trace_vars == <<fetch, resolve_error, called, snapshots>>

\* what the sweep of the executor leaves alone
side_vars == <<outside>>
\* what the handlers outside the executor leave alone
executor_vars ==
    <<faults, pc, run_vars, chat_vars, alert_vars, audit_vars, trace_vars>>

vars == <<env_vars, executor_vars, side_vars>>

\* The registry besides the active flags, and what the membership handlers
\* did to it.
known == outside.known                \* the chat ids that have a document
interaction_history == outside.interaction_history
                                      \* documents of history.interaction
membership == outside.membership      \* per chat, the bot's last join or leave
write_lost == outside.write_lost      \* per chat: its last update failed
last_call == outside.last_call        \* the last add_chat / remove_chat call

\* operands of merge and the results computed from them
merge_case == outside.merge_case

\* The loading of the configuration.
settings == outside.settings          \* the values config.py holds
load_state == outside.load_state      \* "none", "loaded" or "ValueError"
loaded_config == outside.loaded_config \* ConfigHandler.config after loading

\* The in-memory deletion queue of bot/bot.py.
bot_config == outside.bot_config      \* bot.config.config: timeouts, exceptions
user_messages == outside.user_messages \* chat id -> (message id -> due time)
bot_messages == outside.bot_messages  \* the same for bot messages
task == outside.task                  \* position and locals of deletion_task
wall_clock == outside.wall_clock      \* datetime.now(), in seconds
tracked == outside.tracked            \* per message, what happened to it
aborts == outside.aborts              \* passes ended by the except of line 108
commands == outside.commands          \* owner commands handled so far

\* One run of run_cleaner.
main_pc == outside.main_pc            \* position of run_cleaner
all_chats == outside.all_chats        \* the list verify_chat_records fetched
verify_idx == outside.verify_idx      \* position of its loop in the list
checked == outside.checked            \* per chat, what it found
sweep_list == outside.sweep_list      \* the list process_all_chats fetched
sweep_result == outside.sweep_result  \* how process_all_chats ended
alerts == outside.alerts              \* completion and error alerts tried
raised_at == outside.raised_at        \* the step an exception escaped from
exit_code == outside.exit_code        \* what run_cleaner returned (-1: not yet)

(***************************************************************************)
(* Executor.__init__ and the statistics dictionaries.                      *)
(***************************************************************************)
ZeroChatStats ==
    [total_messages |-> 0, deleted_messages |-> 0, skipped_messages |-> 0,
     error_messages |-> 0, exempt_messages |-> 0]

ZeroStats ==
    [total_messages |-> 0, deleted_messages |-> 0, skipped_messages |-> 0,
     error_messages |-> 0, exempt_messages |-> 0, chats_processed |-> 0]

dry_run == config.dry_run
exceptions == config.exceptions
update_interval == config.update_interval
user_messages_threshold == config.user_messages
all_messages_threshold == config.all_messages

\* message_ids of process_chat: the sampled ids of range(1, 1000), ascending.
message_ids ==
    SelectSeq([i \in 1..(MessageIdLimit - 1) |-> i], LAMBDA i : i \in SampledIds)

NoCounts == [c \in ChatIds |-> [r \in Results |-> 0]]
NoMessage ==
    [chat |-> 0, msg |-> 0, verdict |-> "none", outcome |-> "none",
     logged |-> "none", reason |-> "none"]

\* No run of process_all_chats has begun.
IdleExecutor ==
    /\ faults = 0
    /\ pc = "idle"
    /\ active_chats = <<>>
    /\ index = 0
    /\ stats = ZeroStats
    /\ chat_stats = ZeroChatStats
    /\ bot_member = [c \in ChatIds |-> "none"]
    /\ msg_idx = 0
    /\ current_time = 0
    /\ last_update_time = 0
    /\ message_id = 0
    /\ deletion_history = NoCounts
    /\ swept = <<>>
    /\ ends = <<>>
    /\ delete_calls = [c \in ChatIds |-> 0]
    /\ delete_ok = 0
    /\ log_calls = NoCounts
    /\ last = NoMessage
    /\ clock = 0
    /\ fetch = "none"
    /\ resolve_error = "none"
    /\ called = {}
    /\ snapshots = <<>>

NoCall ==
    [n |-> 0, op |-> "none", id |-> 0, type |-> "none", db |-> "none",
     result |-> FALSE]
NoInteractions == [c \in DocumentIds |-> [joined |-> 0, removed |-> 0]]

\* The sweep on its own: nothing outside it is part of the state.
NoOutside == [part |-> "none"]

\* The registry with the documents ids and no chat event handled yet.
IdleRegistry(ids) ==
    [part |-> "registry", known |-> ids,
     interaction_history |-> NoInteractions,
     membership |-> [c \in ChatIds |-> "none"],
     write_lost |-> [c \in ChatIds |-> FALSE],
     last_call |-> NoCall]

\* verify_chat_records has not looked at the chat.
NotChecked ==
    [get_chat |-> "none", status |-> "none", verdict |-> "none",
     active |-> FALSE]

\* process_all_chats was not called by run_cleaner.
NoSweep == [state |-> "none", stats |-> ZeroStats]

\* run_cleaner was not called; the registry holds the documents ids.
IdleCleaner(ids) ==
    [part |-> "cleaner", known |-> ids,
     interaction_history |-> NoInteractions,
     main_pc |-> "idle", all_chats |-> <<>>, verify_idx |-> 0,
     checked |-> [c \in ChatIds |-> NotChecked],
     sweep_list |-> <<>>, sweep_result |-> NoSweep, alerts |-> <<>>,
     raised_at |-> "none", exit_code |-> -1]

Configs ==
    [dry_run : BOOLEAN, exceptions : ExceptionChoices,
     update_interval : {DefaultUpdateInterval},
     user_messages : {DefaultUserMessages},
     all_messages : {DefaultAllMessages}]

Init ==
    /\ config \in Configs
    /\ registry \in {S \in SUBSET ChatIds : Cardinality(S) <= MaxChats}
    /\ IdleExecutor
    /\ outside = NoOutside

(***************************************************************************)
(* Executor._should_delete_message (executor.py:243-295).  The message is  *)
(* simulated from its id: odd ids are bot messages, every tenth id is from *)
(* an exempt user, a lower id is an older message.  The two cutoffs are    *)
(* passed in and not used.                                                 *)
(***************************************************************************)
is_bot_message(msg_id) == msg_id % 2 = 1

is_exempt_user(msg_id) == msg_id % ExemptUserModulus = 0

is_from_exempt_channel(chat_id) == chat_id < 0 /\ abs(chat_id) \in exceptions

\* executor.py:288: the simulated date is beyond both thresholds
beyond_all_threshold(msg_id) == msg_id < OldIdLimit

\* executor.py:290: the simulated date is beyond the user threshold
beyond_user_threshold(msg_id) == msg_id < MidIdLimit

\* Variant: the age is looked at before the exemption.
should_delete_age_first(chat_id, msg_id, user_cutoff, all_cutoff) ==
    IF beyond_all_threshold(msg_id) THEN "delete"
    ELSE IF is_exempt_user(msg_id) \/ is_from_exempt_channel(chat_id)
    THEN "exempt"
    ELSE IF beyond_user_threshold(msg_id)
         THEN (IF is_bot_message(msg_id) THEN "skip" ELSE "delete")
    ELSE "skip"

\* Variant: the user threshold is applied to bot messages too.
should_delete_any_author(chat_id, msg_id, user_cutoff, all_cutoff) ==
    IF is_exempt_user(msg_id) \/ is_from_exempt_channel(chat_id)
    THEN "exempt"
    ELSE IF beyond_user_threshold(msg_id) THEN "delete"
    ELSE "skip"

_should_delete_message(chat_id, msg_id, user_cutoff, all_cutoff) ==
    IF is_exempt_user(msg_id) \/ is_from_exempt_channel(chat_id)
    THEN "exempt"
    ELSE IF beyond_all_threshold(msg_id) THEN "delete"
    ELSE IF beyond_user_threshold(msg_id)
         THEN (IF is_bot_message(msg_id) THEN "skip" ELSE "delete")
    ELSE "skip"

\* executor.py:173-175, in minutes
user_cutoff(at) == at - user_messages_threshold
all_cutoff(at) == at - all_messages_threshold

(***************************************************************************)
(* Database (database.py).                                                 *)
(***************************************************************************)
\* Variant: the active flag is not consulted.
get_all_chats(db_ok) ==
    IF db_ok
    THEN [i \in 1..Len(RegistryOrder) |->
             [_id |-> RegistryOrder[i], type |-> StoredType(RegistryOrder[i])]]
    ELSE <<>>

\* get_all_active_chats (database.py:121-146): the active documents of the
\* three collections, each tagged with the type of its collection; [] when
\* the query raises.
get_all_active_chats(db_ok) ==
    IF db_ok
    THEN SelectSeq([i \in 1..Len(DocumentOrder) |->
                       [_id |-> DocumentOrder[i], type |-> StoredType(DocumentOrder[i])]],
                   LAMBDA chat : chat._id \in registry)
    ELSE <<>>

\* log_deletion (database.py:148-176): inserts one document; an insert that
\* raises is logged and swallowed (returns False).
log_deletion(history, chat_id, result, inserted) ==
    IF inserted THEN [history EXCEPT ![chat_id][result] = @ + 1] ELSE history

\* count_documents over history.deletion for one value of "result"
\* (database.py:193-212); every document of the sweep is inside the window
\* of 24 hours.
RECURSIVE count_documents(_, _, _)
count_documents(history, ids, result) ==
    IF ids = {} THEN 0
    ELSE LET c == CHOOSE x \in ids : TRUE
         IN history[c][result] + count_documents(history, ids \ {c}, result)

\* get_deletion_stats (database.py:178-234): total counts every document,
\* success those with result "yes", error those with "error", skipped those
\* with "no"; success_rate is in percent, here its integer part.
get_deletion_stats(history) ==
    LET count(result) == count_documents(history, ChatIds, result)
        total_count == count("yes") + count("no") + count("dryrun")
                       + count("error")
    IN [total |-> total_count, success |-> count("yes"),
        error |-> count("error"), skipped |-> count("no"),
        success_rate |-> IF total_count > 0
                         THEN (count("yes") * 100) \div total_count ELSE 0]

Inc(counters, key) == [counters EXCEPT ![key] = @ + 1]

(***************************************************************************)
(* UpdateAlert.send_update (update.py:32-111).  outcome is that of the     *)
(* first API call (send_message when no message was sent yet, else         *)
(* edit_message_text); resend_ok is that of the send_message tried after a *)
(* failed edit.  The result tells whether the call raised, the message_id  *)
(* the alert holds afterwards and the API calls made.  The n-th message    *)
(* sent to the owner has message_id n.                                     *)
(***************************************************************************)
SendOutcomes == {"ok", "TelegramError", "Exception"}

\* update.py:77-93: the first API call of a send_update.
FirstCall(outcome) ==
    IF message_id = 0
    THEN [op |-> "send_message", id |-> 0, ok |-> outcome = "ok"]
    ELSE [op |-> "edit_message_text", id |-> message_id,
          ok |-> outcome = "ok"]

\* update.py:99-106: the send_message tried after a failed edit.
Resend(resend_ok) == [op |-> "send_message", id |-> 0, ok |-> resend_ok]

\* Variant: every update is sent as a new message.
send_update_never_edits(outcome, resend_ok) ==
    CASE outcome = "ok" ->
           [raised |-> FALSE, returned |-> TRUE,
            message_id |-> message_id + 1,
            calls |-> <<[op |-> "send_message", id |-> 0, ok |-> TRUE]>>]
      [] outcome = "TelegramError" ->
           [raised |-> FALSE, returned |-> FALSE, message_id |-> message_id,
            calls |-> <<[op |-> "send_message", id |-> 0, ok |-> FALSE]>>]
      [] OTHER ->
           [raised |-> TRUE, returned |-> FALSE, message_id |-> message_id,
            calls |-> <<[op |-> "send_message", id |-> 0, ok |-> FALSE]>>]

send_update(outcome, resend_ok) ==
    CASE outcome = "ok" ->
           [raised |-> FALSE, returned |-> TRUE,
            message_id |-> IF message_id = 0 THEN 1 ELSE message_id,
            calls |-> <<FirstCall(outcome)>>]
      [] outcome = "TelegramError" ->
           [raised |-> FALSE, returned |-> message_id # 0 /\ resend_ok,
            message_id |-> IF message_id # 0 /\ resend_ok
                           THEN message_id + 1 ELSE message_id,
            calls |-> IF message_id # 0
                      THEN <<FirstCall(outcome), Resend(resend_ok)>>
                      ELSE <<FirstCall(outcome)>>]
      [] OTHER ->
           [raised |-> TRUE, returned |-> FALSE, message_id |-> message_id,
            calls |-> <<FirstCall(outcome)>>]

\* The arguments of one send_update call (update.py:32-33) and how it ended.
Snapshot(completed, in_progress, sent) ==
    [completed |-> completed, total |-> Len(active_chats), stats |-> stats,
     in_progress |-> in_progress,
     result |-> CASE sent.raised -> "raised"
                  [] sent.returned -> "True"
                  [] OTHER -> "False",
     calls |-> sent.calls, message_id |-> sent.message_id]

\* A step in which n collaborator calls fail.
Fails(n) == faults + n <= MaxFaults /\ faults' = faults + n

\* Variant: an empty list is swept like any other.
AfterFetchNoEarlyReturn(chats) == "initial_update"

\* executor.py:88-90: with no active chat the run returns stats at once.
AfterFetch(chats) == IF chats = <<>> THEN "returned" ELSE "initial_update"

(***************************************************************************)
(* Executor.process_all_chats (executor.py:69-141).                        *)
(***************************************************************************)
\* executor.py:75-92: reset the statistics, fetch the active chats, return
\* at once when there is none.
ProcessAllChatsStart ==
    /\ pc = "idle"
    /\ \E db_ok \in BOOLEAN :
         LET chats == get_all_active_chats(db_ok)
         IN /\ Fails(IF db_ok THEN 0 ELSE 1)
            /\ fetch' = IF db_ok THEN "ok" ELSE "failed"
            /\ active_chats' = chats
            /\ pc' = AfterFetch(chats)
    /\ stats' = ZeroStats
    /\ UNCHANGED side_vars
    /\ UNCHANGED <<env_vars, index, chat_vars, alert_vars, audit_vars,
                   resolve_error, called, snapshots>>

\* the calls of one send_update that fail
SendFaults(outcome, resend_ok) ==
    (IF outcome = "ok" THEN 0 ELSE 1) + (IF resend_ok THEN 0 ELSE 1)

\* resend_ok matters only when an edit failed with a TelegramError
SendCase(outcome, resend_ok) ==
    /\ (outcome # "TelegramError" \/ message_id = 0) => resend_ok
    /\ Fails(SendFaults(outcome, resend_ok))

\* executor.py:94-100: the initial progress update, outside every try.
InitialUpdate ==
    /\ pc = "initial_update"
    /\ \E outcome \in SendOutcomes, resend_ok \in BOOLEAN :
         LET sent == send_update(outcome, resend_ok)
         IN /\ SendCase(outcome, resend_ok)
            /\ message_id' = sent.message_id
            /\ snapshots' = Append(snapshots, Snapshot(0, TRUE, sent))
            /\ pc' = IF sent.raised THEN "raised" ELSE "loop"
    /\ last_update_time' = clock
    /\ UNCHANGED side_vars
    /\ UNCHANGED <<env_vars, run_vars, chat_vars, clock, current_time,
                   audit_vars, fetch, resolve_error, called>>

\* executor.py:103-110: the next chat of the list is passed to process_chat
\* (executor.py:152-158: its chat_stats start at zero).
ProcessChatCall ==
    /\ pc = "loop"
    /\ index < Len(active_chats)
    /\ swept' = Append(swept, active_chats[index + 1]._id)
    /\ chat_stats' = ZeroChatStats
    /\ msg_idx' = 0
    /\ pc' = "get_chat"
    /\ resolve_error' = "none"
    /\ UNCHANGED side_vars
    /\ UNCHANGED <<env_vars, faults, run_vars, bot_member, alert_vars,
                   deletion_history, ends, delete_calls, delete_ok, log_calls,
                   last, fetch, called, snapshots>>

(***************************************************************************)
(* Executor.process_chat (executor.py:143-242).                            *)
(***************************************************************************)
chat_id == active_chats[index + 1]._id

\* Outcomes of bot.get_chat and chat.get_member: success, BadRequest (chat
\* not found), Forbidden (the bot was kicked), another TelegramError, an
\* exception that is no TelegramError.
CallOutcomes == {"ok", "BadRequest", "Forbidden", "TelegramError", "Exception"}

\* telegram.error: the outcomes that are a TelegramError (executor.py:15-17)
IsTelegramError(outcome) ==
    outcome \in {"BadRequest", "Forbidden", "NetworkError", "TimedOut",
                 "TelegramError"}

\* executor.py:165: the chat types whose sweep needs the delete permission
NeedsPermission(chat_type) == chat_type \in {"group", "supergroup", "channel"}

\* executor.py:160-165: bot.get_chat.  A TelegramError is caught by the outer
\* handler (executor.py:240-242), which returns the zero chat_stats; any other
\* exception leaves process_chat.
AfterGetChat(outcome) ==
    CASE outcome = "ok" ->
           IF NeedsPermission(TelegramType(chat_id))
           THEN "get_member" ELSE "messages"
      [] IsTelegramError(outcome) -> "chat_returned"
      [] OTHER -> "chat_raised"

GetChat ==
    /\ pc = "get_chat"
    /\ \E outcome \in CallOutcomes :
         /\ Fails(IF outcome = "ok" THEN 0 ELSE 1)
         /\ resolve_error' = IF outcome = "ok" THEN "none" ELSE outcome
         /\ pc' = AfterGetChat(outcome)
    /\ UNCHANGED side_vars
    /\ UNCHANGED <<env_vars, run_vars, chat_vars, alert_vars, audit_vars,
                   fetch, called, snapshots>>

\* Variant: the sweep goes on without the delete permission.
PermissionGateOpen(outcome, can_delete_messages) ==
    CASE outcome = "ok" -> "messages"
      [] IsTelegramError(outcome) -> "chat_returned"
      [] OTHER -> "chat_raised"

\* executor.py:166-170: chat.get_member and the permission gate: without
\* can_delete_messages the zero chat_stats is returned.
PermissionGate(outcome, can_delete_messages) ==
    CASE outcome = "ok" ->
           IF ~can_delete_messages THEN "chat_returned" ELSE "messages"
      [] IsTelegramError(outcome) -> "chat_returned"
      [] OTHER -> "chat_raised"

GetMember ==
    /\ pc = "get_member"
    /\ \E outcome \in CallOutcomes, can_delete_messages \in BOOLEAN :
         /\ outcome # "ok" => can_delete_messages
         /\ Fails(IF outcome = "ok" THEN 0 ELSE 1)
         /\ bot_member' =
                [bot_member EXCEPT ![chat_id] =
                    CASE outcome # "ok" -> "none"
                      [] can_delete_messages -> "can_delete"
                      [] OTHER -> "cannot_delete"]
         /\ resolve_error' = IF outcome = "ok" THEN "none" ELSE outcome
         /\ pc' = PermissionGate(outcome, can_delete_messages)
    /\ UNCHANGED side_vars
    /\ UNCHANGED <<env_vars, run_vars, chat_stats, msg_idx, alert_vars,
                   audit_vars, fetch, called, snapshots>>

\* Variant: dry_run is not consulted.
CallsDeleteInDryRun(should_delete) == should_delete = "delete"

\* executor.py:213: the delete call is made for a delete verdict outside
\* dry-run mode only.
CallsDelete(should_delete) == should_delete = "delete" /\ ~dry_run

\* What a handler of process_chat does with a failed delete call.
Handled(where, counted, outcome) ==
    [where |-> where,
     key |-> IF counted THEN "error_messages" ELSE "none",
     log |-> IF counted THEN "error" ELSE "none",
     reason |-> IF counted THEN outcome ELSE "none",
     called |-> TRUE]

\* Variant: a network failure ends the sweep of the chat.
DeleteFailureNetworkFatal(outcome) ==
    CASE outcome = "BadRequest" -> Handled("messages", TRUE, outcome)
      [] outcome \in {"Forbidden", "NetworkError", "TimedOut"} ->
           Handled("chat_returned", TRUE, outcome)
      [] outcome = "TelegramError" -> Handled("chat_returned", FALSE, outcome)
      [] OTHER -> Handled("chat_raised", FALSE, outcome)

\* Variant: Forbidden is passed on without being counted or logged.
DeleteFailureForbiddenUncounted(outcome) ==
    CASE outcome \in {"BadRequest", "NetworkError", "TimedOut"} ->
           Handled("messages", TRUE, outcome)
      [] outcome \in {"Forbidden", "TelegramError"} ->
           Handled("chat_returned", FALSE, outcome)
      [] OTHER -> Handled("chat_raised", FALSE, outcome)

\* Variant: Forbidden is not re-raised.
DeleteFailureForbiddenContinues(outcome) ==
    CASE outcome \in {"BadRequest", "Forbidden", "NetworkError", "TimedOut"} ->
           Handled("messages", TRUE, outcome)
      [] outcome = "TelegramError" -> Handled("chat_returned", FALSE, outcome)
      [] OTHER -> Handled("chat_raised", FALSE, outcome)

\* executor.py:222-242: the handlers of a failed bot.delete_message.
DeleteFailure(outcome) ==
    CASE outcome = "BadRequest" ->
           \* executor.py:222-226
           Handled("messages", TRUE, outcome)
      [] outcome \in {"NetworkError", "TimedOut"} ->
           \* executor.py:228-232, not re-raised
           Handled("messages", TRUE, outcome)
      [] outcome = "Forbidden" ->
           \* counted and logged, then re-raised at executor.py:236 and caught
           \* at executor.py:240
           Handled("chat_returned", TRUE, outcome)
      [] outcome = "TelegramError" ->
           \* no inner handler matches; caught at executor.py:240
           Handled("chat_returned", FALSE, outcome)
      [] OTHER ->
           \* no handler of process_chat matches
           Handled("chat_raised", FALSE, outcome)

\* Variant: a skipped message is passed to delete_message like one to delete.
MessageEffectCallsForSkip(should_delete, outcome) ==
    CASE should_delete = "exempt" ->
           [where |-> "messages", key |-> "exempt_messages", log |-> "no",
            reason |-> "Exempt user", called |-> FALSE]
      [] dry_run ->
           [where |-> "messages", key |-> "deleted_messages", log |-> "dryrun",
            reason |-> "none", called |-> FALSE]
      [] outcome = "Success" ->
           [where |-> "messages", key |-> "deleted_messages", log |-> "yes",
            reason |-> "none", called |-> TRUE]
      [] OTHER -> DeleteFailure(outcome)

\* executor.py:186-236: what one iteration of the message loop does besides
\* counting the message in total_messages.  outcome is that of
\* bot.delete_message, when it is called.
\*   where:  the position of process_chat afterwards
\*   key:    the counter incremented ("none": none)
\*   log:    the result log_deletion is called with ("none": no call)
\*   called: whether bot.delete_message was called
MessageEffect(should_delete, outcome) ==
    CASE should_delete = "exempt" ->
           [where |-> "messages", key |-> "exempt_messages", log |-> "no",
            reason |-> "Exempt user", called |-> FALSE]
      [] should_delete = "skip" ->
           [where |-> "messages", key |-> "skipped_messages", log |-> "no",
            reason |-> "Not old enough", called |-> FALSE]
      [] ~CallsDelete(should_delete) ->
           [where |-> "messages", key |-> "deleted_messages", log |-> "dryrun",
            reason |-> "none", called |-> FALSE]
      [] outcome = "Success" ->
           [where |-> "messages", key |-> "deleted_messages", log |-> "yes",
            reason |-> "none", called |-> TRUE]
      [] OTHER -> DeleteFailure(outcome)

ExamineMessage ==
    /\ pc = "messages"
    /\ msg_idx < Len(message_ids)
    /\ LET msg_id == message_ids[msg_idx + 1]
           should_delete ==
               _should_delete_message(chat_id, msg_id,
                                      user_cutoff(current_time),
                                      all_cutoff(current_time))
       IN \E outcome \in DeleteOutcomes, inserted \in BOOLEAN :
            LET effect == MessageEffect(should_delete, outcome)
                counted == Inc(chat_stats, "total_messages")
            IN /\ ~effect.called => outcome = "Success"
               /\ effect.log = "none" => inserted
               /\ Fails((IF outcome = "Success" THEN 0 ELSE 1)
                        + (IF inserted THEN 0 ELSE 1))
               /\ chat_stats' = IF effect.key = "none" THEN counted
                                ELSE Inc(counted, effect.key)
               /\ delete_calls' = IF effect.called
                                  THEN Inc(delete_calls, chat_id)
                                  ELSE delete_calls
               /\ called' = IF effect.called
                            THEN called \cup {<<chat_id, msg_id>>}
                            ELSE called
               /\ delete_ok' = IF effect.called /\ outcome = "Success"
                               THEN delete_ok + 1 ELSE delete_ok
               /\ log_calls' =
                      IF effect.log = "none" THEN log_calls
                      ELSE log_deletion(log_calls, chat_id, effect.log, TRUE)
               /\ deletion_history' =
                      IF effect.log = "none" THEN deletion_history
                      ELSE log_deletion(deletion_history, chat_id, effect.log,
                                        inserted)
               /\ last' = [chat |-> chat_id, msg |-> msg_id,
                           verdict |-> should_delete,
                           outcome |-> IF effect.called THEN outcome ELSE "none",
                           logged |-> effect.log, reason |-> effect.reason]
               /\ pc' = effect.where
    /\ msg_idx' = msg_idx + 1
    /\ UNCHANGED side_vars
    /\ UNCHANGED <<env_vars, run_vars, bot_member, alert_vars, swept, ends,
                   fetch, resolve_error, snapshots>>

\* executor.py:238: the loop is exhausted, chat_stats is returned.
MessagesDone ==
    /\ pc = "messages"
    /\ msg_idx = Len(message_ids)
    /\ pc' = "chat_returned"
    /\ UNCHANGED side_vars
    /\ UNCHANGED <<env_vars, faults, run_vars, chat_vars, alert_vars,
                   audit_vars, trace_vars>>

(***************************************************************************)
(* Executor.process_all_chats, the rest of the loop (executor.py:112-141). *)
(***************************************************************************)
\* executor.py:120: the seconds the clock advances over the sweep of one chat:
\* none, or so many that two sweeps reach or pass the update interval.
SweepSeconds == {0, MaxSweepSeconds - 1, MaxSweepSeconds}

\* Variant: the value of the chat replaces the total.
merge_overwrite(totals, per_chat) ==
    [key \in DOMAIN totals |->
        IF key \in DOMAIN per_chat THEN per_chat[key] ELSE totals[key]]

\* executor.py:113-115: every key of chat_stats that stats has is added.
merge(totals, per_chat) ==
    [key \in DOMAIN totals |->
        IF key \in DOMAIN per_chat THEN totals[key] + per_chat[key]
        ELSE totals[key]]

\* executor.py:121: is a progress update due?
UpdateDue(at) == at - last_update_time >= update_interval

\* executor.py:112-121: process_chat returned: merge its statistics, count
\* the chat, read the clock.
MergeChatStats ==
    /\ pc = "chat_returned"
    /\ stats' = Inc(merge(stats, chat_stats), "chats_processed")
    /\ \E elapsed \in SweepSeconds :
         /\ clock' = clock + elapsed
         /\ current_time' = clock'
         /\ IF UpdateDue(current_time')
            THEN pc' = "progress_update" /\ index' = index
            ELSE pc' = "loop" /\ index' = index + 1
    /\ ends' = Append(ends, "returned")
    /\ UNCHANGED side_vars
    /\ UNCHANGED <<env_vars, faults, active_chats, chat_vars,
                   last_update_time, message_id, deletion_history, swept,
                   delete_calls, delete_ok, log_calls, last, trace_vars>>

\* executor.py:122-125: the progress update of the loop.  An exception of
\* send_update is caught at executor.py:127 before last_update_time is set.
ProgressUpdate ==
    /\ pc = "progress_update"
    /\ \E outcome \in SendOutcomes, resend_ok \in BOOLEAN :
         LET sent == send_update(outcome, resend_ok)
         IN /\ SendCase(outcome, resend_ok)
            /\ message_id' = sent.message_id
            /\ snapshots' = Append(snapshots, Snapshot(index + 1, TRUE, sent))
            /\ last_update_time' =
                   IF sent.raised THEN last_update_time ELSE current_time
    /\ index' = index + 1
    /\ pc' = "loop"
    /\ UNCHANGED side_vars
    /\ UNCHANGED <<env_vars, active_chats, stats, chat_vars, clock,
                   current_time, audit_vars, fetch, resolve_error, called>>

\* Variant: break instead of continue.
HandleChatExceptionBreak ==
    /\ pc = "chat_raised"
    /\ index' = Len(active_chats)
    /\ pc' = "loop"
    /\ ends' = Append(ends, "raised")
    /\ \E elapsed \in SweepSeconds : clock' = clock + elapsed
    /\ UNCHANGED side_vars
    /\ UNCHANGED <<env_vars, faults, active_chats, stats, chat_vars,
                   current_time, last_update_time, message_id,
                   deletion_history, swept, delete_calls, delete_ok,
                   log_calls, last, trace_vars>>

\* Variant: the chat whose sweep raised is swept again.
HandleChatExceptionRetry ==
    /\ pc = "chat_raised"
    /\ index' = index
    /\ pc' = "loop"
    /\ ends' = Append(ends, "raised")
    /\ \E elapsed \in SweepSeconds : clock' = clock + elapsed
    /\ UNCHANGED side_vars
    /\ UNCHANGED <<env_vars, faults, active_chats, stats, chat_vars,
                   current_time, last_update_time, message_id,
                   deletion_history, swept, delete_calls, delete_ok,
                   log_calls, last, trace_vars>>

\* Variant: the run waits in a paused state after a chat whose sweep raised.
HandleChatExceptionPause ==
    /\ pc = "chat_raised"
    /\ index' = index
    /\ pc' = "paused"
    /\ ends' = Append(ends, "raised")
    /\ \E elapsed \in SweepSeconds : clock' = clock + elapsed
    /\ UNCHANGED side_vars
    /\ UNCHANGED <<env_vars, faults, active_chats, stats, chat_vars,
                   current_time, last_update_time, message_id,
                   deletion_history, swept, delete_calls, delete_ok,
                   log_calls, last, trace_vars>>

\* executor.py:127-129: an exception left process_chat: it is logged and the
\* loop continues with the next chat.
HandleChatException ==
    /\ pc = "chat_raised"
    /\ index' = index + 1
    /\ pc' = "loop"
    /\ ends' = Append(ends, "raised")
    /\ \E elapsed \in SweepSeconds : clock' = clock + elapsed
    /\ UNCHANGED side_vars
    /\ UNCHANGED <<env_vars, faults, active_chats, stats, chat_vars,
                   current_time, last_update_time, message_id,
                   deletion_history, swept, delete_calls, delete_ok,
                   log_calls, last, trace_vars>>

\* Variant: the last snapshot is sent as one more progress report.
FinalSnapshotInProgress(sent) == Snapshot(Len(active_chats), TRUE, sent)

\* executor.py:132-134: the arguments of the final send_update.
FinalSnapshot(sent) == Snapshot(Len(active_chats), FALSE, sent)

\* executor.py:131-141: after the last chat, the final update (outside every
\* try) and the return of the statistics.
FinalUpdate ==
    /\ pc = "loop"
    /\ index = Len(active_chats)
    /\ \E outcome \in SendOutcomes, resend_ok \in BOOLEAN :
         LET sent == send_update(outcome, resend_ok)
         IN /\ SendCase(outcome, resend_ok)
            /\ message_id' = sent.message_id
            /\ snapshots' = Append(snapshots, FinalSnapshot(sent))
            /\ pc' = IF sent.raised THEN "raised" ELSE "returned"
    /\ UNCHANGED side_vars
    /\ UNCHANGED <<env_vars, run_vars, chat_vars, clock, current_time,
                   last_update_time, audit_vars, fetch, resolve_error, called>>

Next ==
    \/ ProcessAllChatsStart
    \/ InitialUpdate
    \/ ProcessChatCall
    \/ GetChat
    \/ GetMember
    \/ ExamineMessage
    \/ MessagesDone
    \/ MergeChatStats
    \/ ProgressUpdate
    \/ HandleChatException
    \/ FinalUpdate

Spec == Init /\ [][Next]_vars

\* The run is one asyncio task (main.py:60): it takes its next step whenever
\* it has one, every awaited call returning or raising.
FairSpec == Spec /\ WF_vars(Next)

(***************************************************************************)
(* StopAlert.send_alert, the success rate (stop.py:46-49).  The rate is a  *)
(* float in the code; here it is its integer part.                         *)
(***************************************************************************)
\* Variant: the quotient is taken the other way round.
success_rate_inverted(s) ==
    IF s.deleted_messages > 0
    THEN (s.total_messages * 100) \div s.deleted_messages
    ELSE 0

success_rate(s) ==
    IF s.total_messages > 0
    THEN (s.deleted_messages * 100) \div s.total_messages
    ELSE 0

(***************************************************************************)
(* The chat registry (database.py:47-119, 236-252) and the membership      *)
(* handlers that write it (chat_handler.py:58-122).  A chat id has its     *)
(* document in the collection of its kind, so the documents are told apart *)
(* by id: known holds the ids that have a document, registry those whose   *)
(* document has active = True.                                             *)
(***************************************************************************)
_get_collection_for_chat_type(chat_type) ==
    CASE chat_type \in {"private", "bot"}      -> "botpm"
      [] chat_type \in {"group", "supergroup"} -> "chats"
      [] chat_type = "channel"                 -> "channels"
      [] OTHER                                 -> "None"

\* The persisted state add_chat and remove_chat act on.
Db == [active |-> registry, known |-> known,
       interactions |-> interaction_history]

\* How the two writes of add_chat / remove_chat end: both stored, the
\* update_one raised, or the insert_one into the interaction history raised.
DbOutcomes == {"ok", "update_failed", "insert_failed"}

\* Variant: a document that exists is left as it is.
add_chat_insert_only(db, cid, chat_type, db_outcome) ==
    IF _get_collection_for_chat_type(chat_type) = "None"
       \/ db_outcome = "update_failed"
    THEN [db |-> db, result |-> FALSE]
    ELSE LET updated ==
                 IF cid \in db.known THEN db
                 ELSE [db EXCEPT !.active = @ \cup {cid},
                                 !.known = @ \cup {cid}]
         IN IF db_outcome = "insert_failed"
            THEN [db |-> updated, result |-> FALSE]
            ELSE [db |-> [updated EXCEPT !.interactions[cid].joined = @ + 1],
                  result |-> TRUE]

\* database.py:47-82: upsert the document with active = True, then log the
\* interaction; an exception of either write is swallowed (returns False).
add_chat(db, cid, chat_type, db_outcome) ==
    IF _get_collection_for_chat_type(chat_type) = "None"
       \/ db_outcome = "update_failed"
    THEN [db |-> db, result |-> FALSE]
    ELSE LET updated == [db EXCEPT !.active = @ \cup {cid},
                                  !.known = @ \cup {cid}]
         IN IF db_outcome = "insert_failed"
            THEN [db |-> updated, result |-> FALSE]
            ELSE [db |-> [updated EXCEPT !.interactions[cid].joined = @ + 1],
                  result |-> TRUE]

\* Variant: the document is deleted.
remove_chat_deletes(db, cid, chat_type, db_outcome) ==
    IF _get_collection_for_chat_type(chat_type) = "None"
       \/ db_outcome = "update_failed"
    THEN [db |-> db, result |-> FALSE]
    ELSE LET updated == [db EXCEPT !.active = @ \ {cid},
                                  !.known = @ \ {cid}]
         IN IF db_outcome = "insert_failed"
            THEN [db |-> updated, result |-> FALSE]
            ELSE [db |-> [updated EXCEPT !.interactions[cid].removed = @ + 1],
                  result |-> TRUE]

\* Variant: the active flag is flipped.
remove_chat_toggle(db, cid, chat_type, db_outcome) ==
    IF _get_collection_for_chat_type(chat_type) = "None"
       \/ db_outcome = "update_failed"
    THEN [db |-> db, result |-> FALSE]
    ELSE LET updated ==
                 IF cid \in db.active
                 THEN [db EXCEPT !.active = @ \ {cid}]
                 ELSE [db EXCEPT !.active = @ \cup (db.known \cap {cid})]
         IN IF db_outcome = "insert_failed"
            THEN [db |-> updated, result |-> FALSE]
            ELSE [db |-> [updated EXCEPT !.interactions[cid].removed = @ + 1],
                  result |-> TRUE]

\* database.py:84-119: set active = False on the document, if there is one
\* (no upsert), then log the interaction; an exception of either write is
\* swallowed (returns False).
remove_chat(db, cid, chat_type, db_outcome) ==
    IF _get_collection_for_chat_type(chat_type) = "None"
       \/ db_outcome = "update_failed"
    THEN [db |-> db, result |-> FALSE]
    ELSE LET updated == [db EXCEPT !.active = @ \ {cid}]
         IN IF db_outcome = "insert_failed"
            THEN [db |-> updated, result |-> FALSE]
            ELSE [db |-> [updated EXCEPT !.interactions[cid].removed = @ + 1],
                  result |-> TRUE]

\* new_chat_member.status as Telegram reports it
ChatMemberStatuses ==
    {"member", "administrator", "left", "kicked", "restricted", "creator"}

\* chat_handler.py:85-92, 115-122: the registry call a status leads to.
RegistryCall(status) ==
    CASE status \in {"member", "administrator"} -> "add_chat"
      [] status \in {"left", "kicked"}          -> "remove_chat"
      [] OTHER                                  -> "none"

\* The state after the handler of a status update of the bot in cid has
\* run.
HandleStatus(cid, status, db_outcome) ==
    LET op == RegistryCall(status)
        chat_type == TelegramType(cid)
        done == CASE op = "add_chat" ->
                       add_chat(Db, cid, chat_type, db_outcome)
                  [] op = "remove_chat" ->
                       remove_chat(Db, cid, chat_type, db_outcome)
                  [] OTHER -> [db |-> Db, result |-> FALSE]
    IN /\ op = "none" => db_outcome = "ok"
       /\ op # "none" => last_call.n < MaxEvents
       /\ registry' = done.db.active
       /\ outside' =
            IF op = "none" THEN outside
            ELSE [outside EXCEPT
                    !.known = done.db.known,
                    !.interaction_history = done.db.interactions,
                    !.membership[cid] =
                        IF op = "add_chat" THEN "joined" ELSE "left",
                    !.write_lost[cid] = (db_outcome = "update_failed"),
                    !.last_call =
                        [n |-> last_call.n + 1, op |-> op, id |-> cid,
                         type |-> chat_type, db |-> db_outcome,
                         result |-> done.result]]

\* chat_handler.py:58-92: an update about a member of a chat; it is acted on
\* when the member is the bot.
chat_member_update ==
    /\ \E cid \in ChatIds, status \in ChatMemberStatuses,
          about_bot \in BOOLEAN, db_outcome \in DbOutcomes :
         IF about_bot
         THEN HandleStatus(cid, status, db_outcome)
         ELSE /\ db_outcome = "ok"
              /\ UNCHANGED <<registry, outside>>
    /\ UNCHANGED <<config, executor_vars>>

\* chat_handler.py:95-122: an update about the bot's own membership.
my_chat_member_update ==
    /\ \E cid \in ChatIds, status \in ChatMemberStatuses,
          db_outcome \in DbOutcomes :
         HandleStatus(cid, status, db_outcome)
    /\ UNCHANGED <<config, executor_vars>>

RegistryInit ==
    /\ config \in {c \in Configs : ~c.dry_run /\ c.exceptions = {}}
    /\ registry = {}
    /\ IdleExecutor
    /\ outside = IdleRegistry({})

RegistryNext == chat_member_update \/ my_chat_member_update

RegistrySpec == RegistryInit /\ [][RegistryNext]_vars

(***************************************************************************)
(* The merge of executor.py:113-115 on its own, applied to statistics a    *)
(* sweep can return.                                                       *)
(***************************************************************************)
\* chat_stats values as process_chat returns them
ChatStatsSamples ==
    {[total_messages |-> d + k + x + e, deleted_messages |-> d,
      skipped_messages |-> k, exempt_messages |-> x, error_messages |-> e] :
        d \in {0, 2}, k \in {0, 3}, x \in {0, 1}, e \in {0, 1}}

\* run totals before a merge
StatsSamples ==
    {ZeroStats,
     [total_messages |-> 5, deleted_messages |-> 2, skipped_messages |-> 3,
      error_messages |-> 0, exempt_messages |-> 0, chats_processed |-> 1]}

MergeInit ==
    /\ config \in {c \in Configs : ~c.dry_run /\ c.exceptions = {}}
    /\ registry = {}
    /\ IdleExecutor
    /\ outside \in
         [part : {"merge"},
          merge_case :
            [totals : StatsSamples, a : ChatStatsSamples,
             b : ChatStatsSamples, c : ChatStatsSamples, out : {<<>>}]]

\* The loop body of executor.py:113-115, run for the chats in either order
\* and grouping.
MergeApply ==
    /\ merge_case.out = <<>>
    /\ LET t == merge_case.totals
           a == merge_case.a
           b == merge_case.b
           c == merge_case.c
       IN outside' =
            [outside EXCEPT !.merge_case.out =
                [t_a_b |-> merge(merge(t, a), b),
                 t_b_a |-> merge(merge(t, b), a),
                 a_b |-> merge(a, b),
                 b_a |-> merge(b, a),
                 ab_c |-> merge(merge(a, b), c),
                 a_bc |-> merge(a, merge(b, c)),
                 t_zero |-> merge(t, ZeroChatStats),
                 zero_a |-> merge(ZeroChatStats, a)]]
    /\ UNCHANGED <<env_vars, executor_vars>>

MergeNext == MergeApply

MergeSpec == MergeInit /\ [][MergeNext]_vars

(***************************************************************************)
(* One scheduled run, run_cleaner (main.py:24-92), and the verification of *)
(* the registry it begins with, verify_chat_records (analyzer.py:35-113).  *)
(* The sweep is one step here: the list process_all_chats fetches and how  *)
(* the call ended; what it does with the list is the subject of Spec.      *)
(***************************************************************************)
GroupLike == {"group", "supergroup", "channel"}

\* What bot.get_chat and chat.get_member can raise: the classes the except
\* clauses of analyzer.py:70-109 name, another TelegramError (RetryAfter,
\* InvalidToken, ...), an exception that is no TelegramError.
VerifyErrors ==
    {"BadRequest", "Forbidden", "ChatMigrated", "NetworkError", "TimedOut",
     "TelegramError", "Exception"}

\* How a write of verify_chat_records ends: stored, or update_one raised.
\* (A failed insert into the interaction history leaves the chat documents
\* as a stored write does.)
VerifyDbOutcomes == {"ok", "update_failed"}

\* the bot's status in a chat
BotStatuses == {"administrator", "creator", "member", "left"}

\* What chat.get_member can raise after get_chat has succeeded: Telegram
\* rejects the call (BadRequest, Forbidden, ChatMigrated) only when the bot
\* is not administrator or creator of the chat.
MemberErrors(status) ==
    IF status \in {"administrator", "creator"}
    THEN {"NetworkError", "TimedOut", "TelegramError", "Exception"}
    ELSE VerifyErrors

\* analyzer.py:70-109: the except clause that catches an error, named by
\* what it concludes.
VerifyClause(error) ==
    CASE error \in {"BadRequest", "Forbidden"}    -> "gone"
      [] error = "ChatMigrated"                   -> "migrated"
      [] error \in {"NetworkError", "TimedOut"}   -> "network"
      [] OTHER                                    -> "unexpected"

\* analyzer.py:49-109, one iteration of the loop.  get_chat and get_member
\* are "ok" or the error raised, status is the bot's status in the chat,
\* new_chat is how get_chat of the migrated chat ended, and
\* writes is how the writes of the iteration ended: the remove_chat (change)
\* and add_chat (add) of a type change, the add_chat of a migrated chat
\* (new), the remove_chat of a chat found invalid (remove).  remove_chat is given the stored or
\* the reported type; both name the collection of the chat.
verify_chat(db, chat, get_chat, status, get_member, new_chat, writes) ==
    LET cid == chat._id
        chat_type == chat.type
        reported == TelegramType(cid)
        retyped ==
            IF get_chat = "ok" /\ chat_type # reported
            THEN add_chat(remove_chat(db, cid, chat_type, writes.change).db,
                          cid, reported, writes.add).db
            ELSE db
        error ==
            CASE get_chat # "ok" -> get_chat
              [] reported \in GroupLike /\ get_member # "ok" -> get_member
              [] OTHER -> "none"
        verdict ==
            CASE error # "none" -> VerifyClause(error)
              [] reported \in GroupLike
                 /\ status \notin {"administrator", "creator"} -> "not_admin"
              [] OTHER -> "valid"
        removed == remove_chat(retyped, cid, chat_type, writes.remove).db
        after ==
            CASE verdict \in {"not_admin", "gone", "unexpected"} -> removed
              [] verdict = "migrated" ->
                   IF new_chat = "ok"
                   THEN add_chat(removed, NewChatId, TelegramType(NewChatId),
                                 writes.new).db
                   ELSE removed
              [] OTHER -> retyped
    IN [db |-> after,
        found |-> [get_chat |-> get_chat, status |-> status,
                   verdict |-> verdict, active |-> cid \in after.active]]

\* Variant: the sweep is run before the registry is verified.
AfterSweepFirst(step) ==
    CASE step = "start_alert" -> "sweep"
      [] step = "sweep"       -> "verify"
      [] step = "verify"      -> "stop_alert"
      [] step = "stop_alert"  -> "close"

\* main.py:49-71: the step that follows a step that returned.
After(step) ==
    CASE step = "start_alert" -> "verify"
      [] step = "verify"      -> "sweep"
      [] step = "sweep"       -> "stop_alert"
      [] step = "stop_alert"  -> "close"

\* what no step of run_cleaner writes
cleaner_frame == <<config, executor_vars>>

\* main.py:29-47: logger, configuration, application and database are set
\* up; each of them can raise.
Setup ==
    /\ main_pc = "idle"
    /\ \E ok \in BOOLEAN :
         outside' =
            IF ok
            THEN [outside EXCEPT !.main_pc = "start_alert"]
            ELSE [outside EXCEPT !.main_pc = "except", !.raised_at = "setup"]
    /\ UNCHANGED <<cleaner_frame, registry>>

\* main.py:49-51: StartAlert.send_alert swallows what send_message raises
\* (start.py:32-67), so the step returns whether or not the alert reached
\* the owner; alerts keeps the completion and the error alerts only.
SendStartAlert ==
    /\ main_pc = "start_alert"
    /\ outside' = [outside EXCEPT !.main_pc = After("start_alert")]
    /\ UNCHANGED <<cleaner_frame, registry>>

\* analyzer.py:44: verify_chat_records fetches the active chats.
VerifyFetch ==
    /\ main_pc = "verify"
    /\ verify_idx = 0
    /\ \E db_ok \in BOOLEAN :
         outside' = [outside EXCEPT !.all_chats = get_all_active_chats(db_ok),
                                    !.verify_idx = 1]
    /\ UNCHANGED <<cleaner_frame, registry>>

\* analyzer.py:49-109: one chat of the list is verified.
VerifyChat ==
    /\ main_pc = "verify"
    /\ verify_idx \in 1..Len(all_chats)
    /\ LET chat == all_chats[verify_idx]
           grouplike == TelegramType(chat._id) \in GroupLike
           retype == chat.type # TelegramType(chat._id)
       IN \E get_chat \in {"ok"} \cup VerifyErrors :
          \E status \in IF get_chat = "ok" /\ grouplike
                        THEN BotStatuses ELSE {"none"} :
          \E get_member \in IF get_chat = "ok" /\ grouplike
                            THEN {"ok"} \cup MemberErrors(status)
                            ELSE {"none"} :
          \E new_chat \in IF "ChatMigrated" \in {get_chat, get_member}
                          THEN {"ok", "failed"} ELSE {"none"} :
          \E o_change \in IF get_chat = "ok" /\ retype
                          THEN VerifyDbOutcomes ELSE {"ok"} :
          \E o_add \in IF get_chat = "ok" /\ retype
                       THEN VerifyDbOutcomes ELSE {"ok"} :
          \E o_new \in IF new_chat = "ok" THEN VerifyDbOutcomes ELSE {"ok"} :
          \E o_remove \in VerifyDbOutcomes :
            LET writes == [change |-> o_change, add |-> o_add,
                           new |-> o_new, remove |-> o_remove]
                done == verify_chat(Db, chat, get_chat, status, get_member,
                                    new_chat, writes)
            IN /\ done.found.verdict \in {"valid", "network"}
                  => o_remove = "ok"
               /\ registry' = done.db.active
               /\ outside' =
                    [outside EXCEPT
                       !.known = done.db.known,
                       !.interaction_history = done.db.interactions,
                       !.checked[chat._id] = done.found,
                       !.verify_idx = verify_idx + 1]
    /\ UNCHANGED cleaner_frame

\* analyzer.py:111-113: every chat of the list was verified; the function
\* returns its two counts, which run_cleaner logs.
VerifyReturn ==
    /\ main_pc = "verify"
    /\ verify_idx > Len(all_chats)
    /\ outside' = [outside EXCEPT !.main_pc = After("verify")]
    /\ UNCHANGED <<cleaner_frame, registry>>

\* main.py:58-60: process_all_chats fetches the active chats, sweeps them
\* and returns its stats, or raises.
ProcessAllChats ==
    /\ main_pc = "sweep"
    /\ \E db_ok \in BOOLEAN, ended \in {"returned", "raised"},
          s \in StatsSamples :
         LET chats == get_all_active_chats(db_ok)
         IN /\ AfterFetch(chats) = "returned"
               => ended = "returned" /\ s = ZeroStats
            /\ outside' =
                 [outside EXCEPT
                    !.sweep_list = chats,
                    !.sweep_result = [state |-> ended, stats |-> s],
                    !.main_pc = IF ended = "returned" THEN After("sweep")
                                ELSE "except",
                    !.raised_at = IF ended = "returned" THEN @ ELSE "sweep"]
    /\ UNCHANGED <<cleaner_frame, registry>>

\* main.py:62-65: StopAlert.send_alert is given the stats of the sweep; it
\* swallows what send_message raises and returns False (stop.py:77-79).
SendStopAlert ==
    /\ main_pc = "stop_alert"
    /\ \E delivered \in BOOLEAN :
         outside' =
            [outside EXCEPT
               !.alerts = Append(@, [kind |-> "stop",
                                     stats |-> sweep_result.stats,
                                     delivered |-> delivered]),
               !.main_pc = After("stop_alert")]
    /\ UNCHANGED <<cleaner_frame, registry>>

\* main.py:67-74: the database connection is closed and the application
\* shut down; when neither raises run_cleaner returns 0.
CloseAndShutdown ==
    /\ main_pc = "close"
    /\ \E ok \in BOOLEAN :
         outside' =
            IF ok
            THEN [outside EXCEPT !.main_pc = "completed", !.exit_code = 0]
            ELSE [outside EXCEPT !.main_pc = "except", !.raised_at = "close"]
    /\ UNCHANGED <<cleaner_frame, registry>>

\* main.py:76-92: an exception of the try block is logged, an error alert
\* is tried with a new application (a failure of it is logged), and
\* run_cleaner returns 1.
HandleException ==
    /\ main_pc = "except"
    /\ \E delivered \in BOOLEAN :
         outside' =
            [outside EXCEPT
               !.alerts = Append(@, [kind |-> "error", stats |-> ZeroStats,
                                     delivered |-> delivered]),
               !.main_pc = "failed",
               !.exit_code = 1]
    /\ UNCHANGED <<cleaner_frame, registry>>

CleanerInit ==
    /\ config \in {c \in Configs : ~c.dry_run /\ c.exceptions = {}}
    /\ registry \in {S \in SUBSET ChatIds : Cardinality(S) <= MaxChats}
    /\ IdleExecutor
    /\ outside = IdleCleaner(registry)

CleanerNext ==
    \/ Setup
    \/ SendStartAlert
    \/ VerifyFetch
    \/ VerifyChat
    \/ VerifyReturn
    \/ ProcessAllChats
    \/ SendStopAlert
    \/ CloseAndShutdown
    \/ HandleException

CleanerSpec == CleanerInit /\ [][CleanerNext]_vars

(***************************************************************************)
(* ConfigHandler (config_handler.py:17-93): the values of config.py are    *)
(* copied and validated.  The values are integers, strings and a list as   *)
(* config.py builds them, so the type checks of lines 70-84 pass.          *)
(***************************************************************************)
\* values of USER_MESSAGES and ALL_MESSAGES an operator can set
ThresholdSamples == {-5, -1, 0, 1, DefaultUserMessages, DefaultAllMessages}

\* what config.py can hold: OWNER_ID is 0 and BOT_TOKEN is empty when the
\* environment does not set them (config.py:15, 33)
Settings ==
    [mongo_uri : {"mongodb://localhost:27017"}, owner_id : {0, 1},
     bot_token : {"", "token"}, user_messages : ThresholdSamples,
     all_messages : ThresholdSamples]

\* config_handler.py:61-67: a required field is taken as missing when its
\* value is falsy: the empty string, or the integer 0.
MissingRequired(cfg) ==
    \/ cfg.mongo_uri = ""
    \/ cfg.owner_id = 0
    \/ cfg.user_messages = 0
    \/ cfg.all_messages = 0
    \/ cfg.bot_token = ""

\* config_handler.py:58-93: a missing required field raises ValueError; then
\* a threshold that is not greater than 0 is replaced by its default.
_validate_config(cfg) ==
    IF MissingRequired(cfg)
    THEN [raised |-> TRUE, config |-> cfg]
    ELSE [raised |-> FALSE,
          config |->
            [cfg EXCEPT
               !.user_messages = IF @ <= 0 THEN DefaultUserMessages ELSE @,
               !.all_messages = IF @ <= 0 THEN DefaultAllMessages ELSE @]]

\* config_handler.py:17-56: ConfigHandler() copies the values and validates
\* them; the ValueError of the validation is not caught.
load_config ==
    /\ load_state = "none"
    /\ LET validated == _validate_config(settings)
       IN outside' =
            [outside EXCEPT
               !.load_state = IF validated.raised THEN "ValueError"
                              ELSE "loaded",
               !.loaded_config = validated.config]
    /\ UNCHANGED <<env_vars, executor_vars>>

ConfigInit ==
    /\ config \in {c \in Configs : ~c.dry_run /\ c.exceptions = {}}
    /\ registry = {}
    /\ IdleExecutor
    /\ \E raw \in Settings :
         outside = [part |-> "config", settings |-> raw,
                    load_state |-> "none", loaded_config |-> raw]

ConfigNext == load_config

ConfigSpec == ConfigInit /\ [][ConfigNext]_vars

(***************************************************************************)
(* The in-memory deletion queue: handle_new_message and deletion_task      *)
(* (bot/bot.py:17-112), /clear and /settimeout (bot/handlers.py:49-116),   *)
(* the timeouts of bot/config.py.  All of them run on one event loop, so   *)
(* a handler runs only while deletion_task is suspended: in                *)
(* client.delete_messages (bot.py:83, 98) or in asyncio.sleep (112).  Time *)
(* is in seconds.  A dictionary is a function on the set of its keys; the  *)
(* loops of deletion_task walk the keys in ascending order.                *)
(***************************************************************************)
\* bot.py:112  asyncio.sleep(60)
SleepSeconds == 60
\* bot.py:50  timedelta(hours=config.bot_timeout)
SecondsPerHour == 3600

\* the messages that arrive: chat id and message id
MessageKeys == {<<10, 1>>, <<10, 2>>, <<20, 1>>, <<30, 1>>}
\* config.exceptions (bot/config.py:20-33): a user id and a chat id
QueueExceptions == {5, 30}

EmptyDict == [k \in {} |-> 0]
Put(dict, key, value) ==
    [k \in DOMAIN dict \cup {key} |-> IF k = key THEN value ELSE dict[k]]
Del(dict, key) == [k \in DOMAIN dict \ {key} |-> dict[k]]

\* list(dict.keys()), ascending
RECURSIVE SortedSeq(_)
SortedSeq(S) ==
    IF S = {} THEN <<>>
    ELSE LET least == CHOOSE x \in S : \A y \in S : x <= y
         IN <<least>> \o SortedSeq(S \ {least})

Untracked ==
    [arrived |-> FALSE, exempt |-> FALSE, queue |-> "none",
     timeout_ends |-> 0, deletion_time |-> 0, attempts |-> 0,
     cleared |-> FALSE]

Sleeping ==
    [pc |-> "sleep", kind |-> "none", current_time |-> 0, chats |-> <<>>,
     msgs |-> <<>>, chat_id |-> 0, msg_id |-> 0]

\* the queue deletion_task or a handler works on
Queue(kind) == IF kind = "user" THEN user_messages ELSE bot_messages

\* outside with the queue of a kind replaced
WithQueue(state, kind, dict) ==
    IF kind = "user" THEN [state EXCEPT !.user_messages = dict]
    ELSE [state EXCEPT !.bot_messages = dict]

\* deletion_task is suspended in an await, so a handler can run
Suspended == task.pc \in {"sleep", "delete"}

\* bot.py:31-43: sender_id is read from message.sender, which is None when
\* the sender entity did not come with the update; None is in no list.
is_excepted(message) ==
    \/ message.sender_known /\ message.sender \in bot_config.exceptions
    \/ message.chat_id \in bot_config.exceptions

\* bot.py:46: via_bot, or the bot flag of a known sender
is_bot(message) ==
    message.via_bot \/ (message.sender_known /\ message.sender_is_bot)

\* bot.py:50, 57: now + bot_timeout hours, or now + user_timeout seconds
deletion_time(message) ==
    IF is_bot(message)
    THEN wall_clock + bot_config.bot_timeout * SecondsPerHour
    ELSE wall_clock + bot_config.user_timeout

\* The senders are two users, 5 and 6; 5 is in EXCEPTIONS and writes in
\* chat 20 only.  A bot flag is read from a known sender only; via_bot is
\* set on the messages a user sends through an inline bot.
Messages ==
    {message \in [chat_id : {key[1] : key \in MessageKeys},
                  msg_id : {key[2] : key \in MessageKeys},
                  sender : {5, 6}, sender_known : BOOLEAN,
                  sender_is_bot : BOOLEAN, via_bot : BOOLEAN] :
        /\ <<message.chat_id, message.msg_id>> \in MessageKeys
        /\ message.sender = 5 => message.chat_id = 20
        /\ message.sender_is_bot => message.sender_known /\ ~message.via_bot}

\* bot.py:48-61: the message is put in the queue of its kind, under its
\* chat, with its deletion time.
enqueue(state, message) ==
    LET kind == IF is_bot(message) THEN "bot" ELSE "user"
        dict == Queue(kind)
        inner == IF message.chat_id \in DOMAIN dict
                 THEN dict[message.chat_id] ELSE EmptyDict
    IN WithQueue(state, kind,
                 Put(dict, message.chat_id,
                     Put(inner, message.msg_id, deletion_time(message))))

\* bot.py:24-64: a new message arrives (each message once).
handle_new_message ==
    /\ Suspended
    /\ Cardinality({key \in MessageKeys : tracked[key].arrived}) < MaxArrivals
    /\ \E message \in Messages :
         LET key == <<message.chat_id, message.msg_id>>
             exempt == message.sender \in bot_config.exceptions
                       \/ message.chat_id \in bot_config.exceptions
             noted == [outside EXCEPT
                         !.tracked[key].arrived = TRUE,
                         !.tracked[key].exempt = exempt]
         IN /\ ~tracked[key].arrived
            \* the ids of a chat ascend
            /\ \A earlier \in MessageKeys :
                  (earlier[1] = key[1] /\ earlier[2] < key[2])
                  => tracked[earlier].arrived
            /\ outside' =
                 IF is_excepted(message) THEN noted
                 ELSE [enqueue(noted, message) EXCEPT
                         !.tracked[key].queue =
                             IF is_bot(message) THEN "bot" ELSE "user",
                         !.tracked[key].timeout_ends =
                             IF is_bot(message)
                             THEN wall_clock
                                  + bot_config.bot_timeout * SecondsPerHour
                             ELSE wall_clock + bot_config.user_timeout,
                         !.tracked[key].deletion_time =
                             deletion_time(message)]
    /\ UNCHANGED <<env_vars, executor_vars>>

\* The messages a /clear of a queue type drops.
ClearedBy(queue_type) ==
    {key \in MessageKeys :
        \/ /\ queue_type \in {"user", "all"}
           /\ key[1] \in DOMAIN user_messages
           /\ key[2] \in DOMAIN user_messages[key[1]]
        \/ /\ queue_type \in {"bot", "all"}
           /\ key[1] \in DOMAIN bot_messages
           /\ key[2] \in DOMAIN bot_messages[key[1]]}

\* handlers.py:88-116: /clear with its argument; any other argument, or
\* none, is answered with a usage message.
clear_command ==
    /\ Suspended
    /\ commands < MaxCommands
    /\ \E queue_type \in {"user", "bot", "all", "other"} :
         outside' =
            [outside EXCEPT
               !.commands = @ + 1,
               !.user_messages = IF queue_type \in {"user", "all"}
                                 THEN EmptyDict ELSE @,
               !.bot_messages = IF queue_type \in {"bot", "all"}
                                THEN EmptyDict ELSE @,
               !.tracked = [key \in MessageKeys |->
                               IF key \in ClearedBy(queue_type)
                               THEN [@[key] EXCEPT !.cleared = TRUE]
                               ELSE @[key]]]
    /\ UNCHANGED <<env_vars, executor_vars>>

\* The second argument of /settimeout: int() of it raises ValueError when
\* it is no integer (bot/config.py:52, 57).
TimeoutArguments ==
    {[text |-> "0", parses |-> TRUE, value |-> 0],
     [text |-> "soon", parses |-> FALSE, value |-> 0]}

\* Variant: the messages already queued are given the new timeout.
set_timeout_reschedules(state, timeout_type, argument) ==
    IF ~argument.parses \/ timeout_type \notin {"user", "bot"} THEN state
    ELSE LET moved(dict) ==
                 [c \in DOMAIN dict |->
                     [m \in DOMAIN dict[c] |-> wall_clock + argument.value]]
         IN IF timeout_type = "user"
            THEN [state EXCEPT !.bot_config.user_timeout = argument.value,
                               !.user_messages = moved(@)]
            ELSE [state EXCEPT !.bot_config.bot_timeout = argument.value,
                               !.bot_messages = moved(@)]

\* handlers.py:49-72 with bot/config.py:50-58: the timeout of the named
\* type is replaced; a ValueError of int() is caught and answered.
set_timeout(state, timeout_type, argument) ==
    CASE ~argument.parses -> state
      [] timeout_type = "user" ->
           [state EXCEPT !.bot_config.user_timeout = argument.value]
      [] timeout_type = "bot" ->
           [state EXCEPT !.bot_config.bot_timeout = argument.value]
      [] OTHER -> state

set_timeout_command ==
    /\ Suspended
    /\ commands < MaxCommands
    /\ \E timeout_type \in {"user", "bot", "other"},
          argument \in TimeoutArguments :
         outside' =
            [set_timeout(outside, timeout_type, argument) EXCEPT
               !.commands = @ + 1]
    /\ UNCHANGED <<env_vars, executor_vars>>

\* bot.py:108-112: an exception of the pass is caught and logged, and the
\* task sleeps until the next pass.
AbortPass(state) == [state EXCEPT !.task = Sleeping, !.aborts = @ + 1]

\* bot.py:68-79 after the sleep of line 112: the time of the pass is read
\* once and the chats of the user queue are listed.
StartPass ==
    /\ task.pc = "sleep"
    /\ LET time == IF wall_clock < MaxSleeps * SleepSeconds
                   THEN wall_clock + SleepSeconds ELSE wall_clock
       IN outside' =
            [outside EXCEPT
               !.wall_clock = time,
               !.task = [Sleeping EXCEPT
                           !.pc = "chats", !.kind = "user",
                           !.current_time = time,
                           !.chats = SortedSeq(DOMAIN user_messages)]]
    /\ UNCHANGED <<env_vars, executor_vars>>

\* bot.py:79-80, 94-95: the next chat of the list and the list of its
\* message ids; after the last chat of the user queue the bot queue, after
\* the last chat of the bot queue the sleep.
NextChat ==
    /\ task.pc = "chats"
    /\ outside' =
         IF task.chats = <<>>
         THEN IF task.kind = "user"
              THEN [outside EXCEPT !.task.kind = "bot",
                                   !.task.chats = SortedSeq(DOMAIN bot_messages)]
              ELSE [outside EXCEPT !.task = Sleeping]
         ELSE LET chat == Head(task.chats)
              IN IF chat \notin DOMAIN Queue(task.kind)
                 THEN AbortPass(outside)
                 ELSE [outside EXCEPT
                         !.task.pc = "msgs",
                         !.task.chat_id = chat,
                         !.task.chats = Tail(@),
                         !.task.msgs = SortedSeq(DOMAIN Queue(task.kind)[chat])]
    /\ UNCHANGED <<env_vars, executor_vars>>

\* Variant: the time is read once, when the task starts, not in each pass.
IsDueAtTaskStart(pass_time, when) == 0 >= when

\* Variant: a message is deleted whatever its deletion time.
IsDueAlways(pass_time, when) == TRUE

\* bot.py:81, 96
IsDue(pass_time, when) == pass_time >= when

\* bot.py:81-83, 90-91 (96-98, 105-106): the next message id of the chat is
\* deleted when its time has come; after the last one the chat is dropped
\* from the queue if nothing is left under it.
NextMessage ==
    /\ task.pc = "msgs"
    /\ LET dict == Queue(task.kind)
           chat == task.chat_id
       IN outside' =
            IF chat \notin DOMAIN dict THEN AbortPass(outside)
            ELSE IF task.msgs = <<>>
            THEN [WithQueue(outside, task.kind,
                            IF DOMAIN dict[chat] = {} THEN Del(dict, chat)
                            ELSE dict)
                    EXCEPT !.task.pc = "chats"]
            ELSE LET msg == Head(task.msgs)
                     key == <<chat, msg>>
                 IN IF msg \notin DOMAIN dict[chat] THEN AbortPass(outside)
                    ELSE IF IsDue(task.current_time, dict[chat][msg])
                    THEN [outside EXCEPT
                            !.task.pc = "delete",
                            !.task.msg_id = msg,
                            !.task.msgs = Tail(@),
                            !.tracked[key].attempts = @ + 1]
                    ELSE [outside EXCEPT !.task.msgs = Tail(@)]
    /\ UNCHANGED <<env_vars, executor_vars>>

\* Variant: a message whose deletion failed stays in the queue.
after_delete_keeps_failed(state, kind, chat, msg, deleted) ==
    LET dict == Queue(kind)
    IN IF chat \notin DOMAIN dict \/ msg \notin DOMAIN dict[chat]
       THEN AbortPass(state)
       ELSE [WithQueue(state, kind,
                       IF deleted THEN Put(dict, chat, Del(dict[chat], msg))
                       ELSE dict)
               EXCEPT !.task.pc = "msgs"]

\* bot.py:84-87 (99-102): an exception of the call is logged; then the
\* entry is deleted from the queue, which raises KeyError when the chat or
\* the message id is no longer there.
after_delete(state, kind, chat, msg, deleted) ==
    LET dict == Queue(kind)
    IN IF chat \notin DOMAIN dict \/ msg \notin DOMAIN dict[chat]
       THEN AbortPass(state)
       ELSE [WithQueue(state, kind, Put(dict, chat, Del(dict[chat], msg)))
               EXCEPT !.task.pc = "msgs"]

\* bot.py:83 (98): client.delete_messages returns or raises.
DeleteReturns ==
    /\ task.pc = "delete"
    /\ \E deleted \in BOOLEAN :
         outside' = after_delete(outside, task.kind, task.chat_id,
                                 task.msg_id, deleted)
    /\ UNCHANGED <<env_vars, executor_vars>>

deletion_task == StartPass \/ NextChat \/ NextMessage \/ DeleteReturns

QueueInit ==
    /\ config \in {c \in Configs : ~c.dry_run /\ c.exceptions = {}}
    /\ registry = {}
    /\ IdleExecutor
    /\ outside = [part |-> "queue",
                  bot_config |-> [user_timeout |-> SleepSeconds,
                                  bot_timeout |-> 1,
                                  exceptions |-> QueueExceptions],
                  user_messages |-> EmptyDict, bot_messages |-> EmptyDict,
                  task |-> Sleeping, wall_clock |-> 0,
                  tracked |-> [key \in MessageKeys |-> Untracked],
                  aborts |-> 0, commands |-> 0]

QueueNext ==
    \/ handle_new_message
    \/ clear_command
    \/ set_timeout_command
    \/ StartPass
    \/ NextChat
    \/ NextMessage
    \/ DeleteReturns

QueueSpec == QueueInit /\ [][QueueNext]_vars

\* deletion_task keeps being scheduled, and a call it awaits returns.
FairQueueSpec == QueueSpec /\ WF_vars(deletion_task)

(***************************************************************************)
(* Properties of the sweep.                                                *)
(***************************************************************************)
Balanced(s) ==
    s.total_messages =
        s.deleted_messages + s.skipped_messages + s.exempt_messages
        + s.error_messages

NoResults == [r \in Results |-> 0]

\* C1: whenever process_chat has returned its chat_stats, and whenever
\* process_all_chats has returned its stats, total_messages is the sum of
\* the deleted, skipped, exempt and error counters.
C1_CountersBalance ==
    /\ pc = "chat_returned" => Balanced(chat_stats)
    /\ pc = "returned" => Balanced(stats)

\* C2: process_chat is called for the chats of the active list in list
\* order, once each: the calls made so far are a prefix of the list, each
\* pass of the loop (however the sweep of the chat ended) has made one call,
\* and when the run returns every chat of the list was passed to
\* process_chat.  A run that raises does so in the initial update, before
\* the first chat, or in the final update, after the last.
C2_EveryChatSweptOnce ==
    /\ Len(swept) <= Len(active_chats)
    /\ \A i \in 1..Len(swept) : swept[i] = active_chats[i]._id
    /\ pc = "loop" => Len(swept) = index /\ Len(ends) = index
    /\ pc = "returned" => Len(swept) = Len(active_chats)
    /\ pc = "raised" => Len(swept) \in {0, Len(active_chats)}

\* a run returned in which the sweep of the first chat raised and the second
\* chat was swept all the same
C2_Witness ==
    /\ pc = "returned"
    /\ Len(swept) = 2
    /\ ends = <<"raised", "returned">>

\* C3: when process_all_chats returns, chats_processed is the number of
\* chats of the active list.
C3_ChatsProcessedCountsAttempts ==
    pc = "returned" => stats.chats_processed = Len(active_chats)

\* C4: process_chat does not raise once it has begun to examine messages:
\* no failure of a per-message operation leaves it as an exception.
C4_ProcessChatNeverRaises == ~(pc = "chat_raised" /\ msg_idx > 0)

\* C5: when process_all_chats returns with dry_run off, deleted_messages is
\* the number of delete_message calls of the run that succeeded.
C5_PartialSuccessKept ==
    (pc = "returned" /\ ~dry_run) => stats.deleted_messages = delete_ok

\* C6: a message whose author is exempt, or whose chat is an exempt channel,
\* is classified exempt and gets no delete call, whatever its age.
C6_ExemptionBeforeAge ==
    (/\ last.verdict # "none"
     /\ is_exempt_user(last.msg) \/ is_from_exempt_channel(last.chat))
    => last.verdict = "exempt" /\ last.outcome = "none"

\* a message older than both thresholds was classified exempt
C6_Witness ==
    /\ last.verdict = "exempt"
    /\ beyond_all_threshold(last.msg)
    /\ is_exempt_user(last.msg)

C8_ConfiguredChannelExempt ==
    \A c \in ChatIds :
        (c < 0 /\ c \in exceptions)
        => /\ delete_calls[c] = 0
           /\ last.chat = c => last.verdict = "exempt"

\* C9: with dry_run on, no step calls delete_message, and the step that
\* examines a message with verdict delete adds one to deleted_messages and
\* calls log_deletion once, with result "dryrun".
C9_DryRunNeverDeletes ==
    [][dry_run =>
        /\ \A c \in ChatIds : delete_calls'[c] = 0
        /\ delete_ok' = 0
        /\ (msg_idx' = msg_idx + 1 /\ last'.verdict = "delete")
           => /\ chat_stats'.deleted_messages = chat_stats.deleted_messages + 1
              /\ last'.logged = "dryrun"
              /\ log_calls' = log_deletion(log_calls, last'.chat, "dryrun", TRUE)
      ]_vars

\* a message with verdict delete was examined in dry-run mode
C9_Witness ==
    /\ dry_run
    /\ last.verdict = "delete"
    /\ last.logged = "dryrun"
    /\ chat_stats.deleted_messages > 0

\* C10: a chat in which get_member reported no delete permission has no
\* message examined in the run: no delete call, no log_deletion call, no
\* document in the deletion history, and its process_chat returns the
\* all-zero chat_stats.
C10_NoPermissionNoSweep ==
    \A c \in ChatIds :
        bot_member[c] = "cannot_delete"
        => /\ delete_calls[c] = 0
           /\ log_calls[c] = NoResults
           /\ deletion_history[c] = NoResults
           /\ last.chat # c
           /\ (index < Len(active_chats) /\ chat_id = c)
              => /\ pc \in {"chat_returned", "progress_update"}
                 /\ chat_stats = ZeroChatStats
                 /\ msg_idx = 0

\* a run returned in which a chat that needs the permission lacked it
C10_Witness ==
    /\ pc = "returned"
    /\ \E c \in ChatIds :
         /\ NeedsPermission(TelegramType(c))
         /\ bot_member[c] = "cannot_delete"

\* C11: when process_chat has returned because get_chat or get_member
\* failed with BadRequest (chat not found) or Forbidden, its chat_stats is
\* all zero and the chat has been marked inactive in the registry, so that
\* the next get_all_active_chats leaves it out.
C11_FailedResolutionDeactivates ==
    (/\ pc = "chat_returned"
     /\ resolve_error \in {"BadRequest", "Forbidden"})
    => /\ chat_stats = ZeroChatStats
       /\ chat_id \notin registry

\* The step that examines a message and calls delete_message on it.
DeleteStep == msg_idx' = msg_idx + 1 /\ last'.outcome # "none"

\* C12: a step whose delete call fails with BadRequest, NetworkError or
\* TimedOut adds one to error_messages and to no other outcome counter,
\* calls log_deletion once with result "error" and the error as reason, and
\* leaves process_chat in the message loop of the same chat.
C12_RecoverableFailureContinues ==
    [][(DeleteStep /\ last'.outcome \in {"BadRequest", "NetworkError", "TimedOut"})
       => /\ chat_stats' =
               Inc(Inc(chat_stats, "total_messages"), "error_messages")
          /\ log_calls' = log_deletion(log_calls, last'.chat, "error", TRUE)
          /\ last'.logged = "error"
          /\ last'.reason = last'.outcome
          /\ pc' = "messages"
          /\ index' = index
      ]_vars

\* after a delete call that timed out, a later message of the same chat was
\* examined
C12_Witness ==
    /\ pc = "messages"
    /\ chat_stats.error_messages = 1
    /\ delete_calls[chat_id] >= 1
    /\ msg_idx >= 2
    /\ last.outcome = "none"
    /\ \E m \in SampledIds : <<chat_id, m>> \in called /\ m < last.msg
    /\ faults = 1

ChatFatal ==
    /\ index < Len(active_chats)
    /\ last.chat = chat_id
    /\ last.outcome = "Forbidden"

\* C14: while a Forbidden delete call is the last thing that happened in
\* the sweep of the current chat, process_chat has returned: no step examines
\* a message of the chat, calls delete_message or log_deletion, or changes
\* chat_stats; and chat_stats counts every message up to and including the
\* failing one, the failing one as an error.
C14_FatalFailureStopsChat ==
    [][ChatFatal
       => /\ pc \in {"chat_returned", "progress_update"}
          /\ chat_stats.total_messages = msg_idx
          /\ message_ids[msg_idx] = last.msg
          /\ chat_stats.error_messages >= 1
          /\ Balanced(chat_stats)
          /\ UNCHANGED <<chat_stats, msg_idx, last, called, delete_calls,
                         log_calls, deletion_history>>
      ]_vars

\* the third or a later message of a chat met Forbidden after an earlier
\* one was deleted, and the chat's counters were merged into the totals
C14_Witness ==
    /\ ChatFatal
    /\ pc = "progress_update"
    /\ msg_idx >= 2
    /\ msg_idx < Len(message_ids)
    /\ chat_stats.deleted_messages >= 1
    /\ stats.error_messages >= 1

\* C15: no step calls delete_message with a (chat id, message id) pair an
\* earlier step of the run has called it with, whatever the earlier call's
\* outcome; each call is one more call for its chat.
C15_NoRetry ==
    [][DeleteStep
       => /\ <<last'.chat, last'.msg>> \notin called
          /\ called' = called \cup {<<last'.chat, last'.msg>>}
          /\ delete_calls' = Inc(delete_calls, last'.chat)
      ]_vars

\* a run returned in which a delete call failed and later calls were made
C15_Witness ==
    /\ pc = "returned"
    /\ stats.error_messages >= 1
    /\ Cardinality(called) >= 3
    /\ \E c \in ChatIds : delete_calls[c] >= 1 /\ log_calls[c].error >= 1

\* C16: when the active chats cannot be fetched, process_all_chats raises:
\* it does not return.
C16_FetchFailurePropagates == fetch = "failed" => pc = "raised"

\* C17: with no active chat in the registry, once the (successful) fetch is
\* done process_all_chats has returned the all-zero stats: no chat was
\* swept, no message examined, no delete call made, no alert sent.
C17_EmptyRegistryReturnsAtOnce ==
    (registry = {} /\ fetch = "ok")
    => /\ pc = "returned"
       /\ stats = ZeroStats
       /\ swept = <<>>
       /\ called = {}
       /\ last = NoMessage
       /\ snapshots = <<>>

\* a run over an empty registry returned
C17_Witness == registry = {} /\ fetch = "ok" /\ pc = "returned" /\ faults = 0

\* The snapshots marked complete among those sent so far.
CompleteSnapshots == {i \in 1..Len(snapshots) : ~snapshots[i].in_progress}

\* C18 as stated: every run that has returned has sent exactly one snapshot
\* marked complete, the last of all, carrying the stats it returns.
C18_EveryRunEndsWithCompleteSnapshot ==
    pc = "returned"
    => /\ CompleteSnapshots = {Len(snapshots)}
       /\ snapshots[Len(snapshots)].stats = stats

\* C18, amended: a run that found at least one active chat and has returned
\* has sent exactly one snapshot marked complete; it is the last of all,
\* sent after every chat of the list was passed to process_chat, and it
\* carries the stats the run returns.  No complete snapshot is sent before
\* the end of the run, and a run that found no active chat sends no
\* snapshot at all.
C18_NonEmptyRunEndsWithCompleteSnapshot ==
    /\ pc \notin {"returned", "raised"} => CompleteSnapshots = {}
    /\ CompleteSnapshots \subseteq {Len(snapshots)}
    /\ CompleteSnapshots # {} => Len(swept) = Len(active_chats)
    /\ pc = "returned"
       => IF active_chats = <<>>
          THEN snapshots = <<>>
          ELSE /\ CompleteSnapshots = {Len(snapshots)}
               /\ snapshots[Len(snapshots)].stats = stats
               /\ snapshots[Len(snapshots)].completed = Len(active_chats)
               /\ snapshots[Len(snapshots)].total = Len(active_chats)

\* a run returned after an initial, an in-progress and the complete snapshot
C18_Witness ==
    /\ pc = "returned"
    /\ Len(snapshots) = 3
    /\ snapshots[2].in_progress
    /\ snapshots[2].completed >= 1
    /\ ~snapshots[3].in_progress

\* The step that ends the pass of the loop for one chat, by return or by
\* exception.
ChatEnds == Len(ends') = Len(ends) + 1

\* C19: after a chat, an in-progress snapshot is sent exactly when the time
\* since the last one has reached the update interval.
C19_SnapshotWheneverIntervalElapsed ==
    [][ChatEnds
       => (pc' = "progress_update"
           <=> clock' - last_update_time >= update_interval)
      ]_vars

\* The audit calls made for one chat.
Logged(c) ==
    log_calls[c].yes + log_calls[c].no + log_calls[c].dryrun
    + log_calls[c].error

\* C20: in the sweep of a chat, log_deletion has been called once for every
\* message examined so far.
C20_OneAuditEntryPerMessage ==
    pc \in {"messages", "chat_returned", "chat_raised"}
    => Logged(chat_id) = msg_idx

\* C21: every chat passed to process_chat, and every chat a delete_message
\* call was made in, had active = True in the registry when the list was
\* fetched; a chat that was inactive then has no call of get_member, of
\* delete_message or of log_deletion in the run.
C21_OnlyActiveChatsSwept ==
    /\ \A i \in 1..Len(swept) : swept[i] \in registry
    /\ \A i \in 1..Len(active_chats) : active_chats[i]._id \in registry
    /\ \A p \in called : p[1] \in registry
    /\ \A c \in ChatIds \ registry :
         /\ delete_calls[c] = 0
         /\ log_calls[c] = NoResults
         /\ bot_member[c] = "none"
         /\ last.chat # c

\* a run over a registry with an active and an inactive chat returned after
\* delete calls
C21_Witness ==
    /\ pc = "returned"
    /\ registry # {}
    /\ ChatIds \ registry # {}
    /\ called # {}
    /\ Len(swept) = Cardinality(registry)

\* The integer part of the rate lies within 0..100 and brackets
\* deleted_messages / total_messages * 100.
RateOf(s) ==
    LET rate == success_rate(s)
    IN /\ 0 <= rate /\ rate <= 100
       /\ s.total_messages = 0 => rate = 0
       /\ s.total_messages > 0
          => /\ rate * s.total_messages <= s.deleted_messages * 100
             /\ s.deleted_messages * 100 < (rate + 1) * s.total_messages

\* C25: for the statistics of the run and of the current chat, at every
\* point of the sweep, the success rate is deleted_messages / total_messages
\* * 100, is 0 when total_messages is 0, and lies between 0 and 100.
C25_SuccessRateInRange == RateOf(stats) /\ RateOf(chat_stats)

\* a run returned whose rate is neither 0 nor 100
C25_Witness ==
    /\ pc = "returned"
    /\ stats.total_messages > 0
    /\ success_rate(stats) \notin {0, 100}

\* C26: every run ends: it reaches the position where it has returned its
\* statistics or the one where it has raised to its caller, and stays there.
C26_RunTerminates == <>[](pc \in {"returned", "raised"})

\* a run returned after the sweep of a chat raised and MaxFaults calls failed
C26_Witness ==
    /\ pc = "returned"
    /\ faults = MaxFaults
    /\ \E i \in 1..Len(ends) : ends[i] = "raised"

\* C28: delete_message was called for the message examined last only if its
\* verdict is delete and dry_run is off; every pair delete_message was ever
\* called with is a message the classifier says to delete; with dry_run on
\* no call was made at all.
C28_DeleteOnlyOnDeleteVerdict ==
    /\ last.outcome # "none" => (last.verdict = "delete" /\ ~dry_run)
    /\ last.verdict \in {"exempt", "skip"}
       => /\ last.outcome = "none"
          /\ <<last.chat, last.msg>> \notin called
    /\ dry_run => called = {}
    /\ \A p \in called :
         _should_delete_message(p[1], p[2], user_cutoff(current_time),
                                all_cutoff(current_time)) = "delete"

\* after a failed delete call of the same chat, a message with verdict skip
\* was examined and not passed to delete_message
C28_Witness ==
    /\ last.verdict = "skip"
    /\ last.outcome = "none"
    /\ chat_stats.error_messages >= 1
    /\ faults >= 1
    /\ called # {}

\* C24: merging is field-wise addition; the totals after two chats do not
\* depend on the order of the two merges; merging chat statistics is
\* commutative and associative; merging the all-zero statistics, on either
\* side, changes nothing.
C24_MergeIsFieldwiseAddition ==
    merge_case.out # <<>>
    => LET t == merge_case.totals
           a == merge_case.a
           b == merge_case.b
           out == merge_case.out
       IN /\ \A key \in DOMAIN a : out.a_b[key] = a[key] + b[key]
          /\ \A key \in DOMAIN t :
               out.t_a_b[key] =
                   IF key \in DOMAIN a THEN t[key] + a[key] + b[key]
                   ELSE t[key]
          /\ out.t_a_b = out.t_b_a
          /\ out.a_b = out.b_a
          /\ out.ab_c = out.a_bc
          /\ out.t_zero = t
          /\ out.zero_a = a

\* three different non-zero statistics were merged into non-zero totals
C24_Witness ==
    /\ merge_case.out # <<>>
    /\ merge_case.totals # ZeroStats
    /\ Cardinality({merge_case.a, merge_case.b, merge_case.c, ZeroChatStats}) = 4

\* C22: no step of a membership handler deletes a chat's document, and
\* after every step, for each chat whose last registry update was stored
\* and that has seen a join or leave event of the bot, the document is
\* active exactly when the most recent of these events was a join.
C22_ActiveFollowsMembership ==
    [][/\ known \subseteq known'
       /\ registry' \subseteq known'
       /\ \A c \in ChatIds :
            (membership'[c] # "none" /\ ~write_lost'[c])
            => (c \in registry' <=> membership'[c] = "joined")
      ]_vars

\* a chat was joined, left and joined again, and is active
C22_Witness ==
    \E c \in ChatIds :
        /\ interaction_history[c].joined >= 2
        /\ interaction_history[c].removed >= 1
        /\ membership[c] = "joined"
        /\ ~write_lost[c]
        /\ c \in registry

\* The step is a call of remove_chat for a chat whose document is inactive,
\* or of add_chat for a chat whose document is active.
RepeatedCall ==
    /\ last_call'.n = last_call.n + 1
    /\ \/ last_call'.op = "remove_chat" /\ last_call'.id \in known \ registry
       \/ last_call'.op = "add_chat" /\ last_call'.id \in registry

\* C23 as stated: such a call, when the database stores what it is given,
\* succeeds and leaves the persisted state as it was.
C23_RepeatedCallIsNoOp ==
    [][(RepeatedCall /\ last_call'.db = "ok")
       => /\ last_call'.result
          /\ UNCHANGED <<registry, known, interaction_history>>
      ]_vars

\* C23, amended: such a call leaves every chat document as it was: an
\* inactive one inactive, an active one active.  When the database stores
\* both writes it returns True and has added one document to the interaction
\* history.
C23_RepeatedCallKeepsDocuments ==
    [][RepeatedCall
       => /\ UNCHANGED <<registry, known>>
          /\ last_call'.result <=> last_call'.db = "ok"
          /\ last_call'.result
             => interaction_history' =
                  [interaction_history EXCEPT
                     ![last_call'.id][IF last_call'.op = "add_chat"
                                      THEN "joined" ELSE "removed"] = @ + 1]
      ]_vars

\* remove_chat was called successfully twice in a row for the same chat
C23_Witness ==
    /\ last_call.op = "remove_chat"
    /\ last_call.result
    /\ last_call.id \in known \ registry
    /\ interaction_history[last_call.id].removed >= 2
    /\ interaction_history[last_call.id].joined = 1

\* The alerts of a kind run_cleaner called send_alert for, and those of
\* them that reached the owner.
Tried(kind) == {i \in 1..Len(alerts) : alerts[i].kind = kind}
Delivered(kind) == {i \in Tried(kind) : alerts[i].delivered}

\* C27: run_cleaner has returned exactly when it is completed or failed;
\* when it returned 0 no exception escaped, the sweep had returned and the
\* completion summary was sent with the stats of the sweep; it returned 1
\* exactly when an exception escaped a step, and then an error alert was
\* tried and no completion summary reached the owner.
C27_ExitCodeTellsOutcome ==
    /\ exit_code # -1 <=> main_pc \in {"completed", "failed"}
    /\ exit_code = 0
       => /\ main_pc = "completed"
          /\ raised_at = "none"
          /\ sweep_result.state = "returned"
          /\ \E i \in Tried("stop") : alerts[i].stats = sweep_result.stats
    /\ main_pc = "failed" => exit_code = 1 /\ raised_at # "none"
    /\ exit_code = 1
       => /\ main_pc = "failed"
          /\ Tried("error") # {}
          /\ Delivered("stop") = {}

\* The ids of the chats process_all_chats fetched in run_cleaner.
SweptIds == {sweep_list[i]._id : i \in 1..Len(sweep_list)}

\* C29: when process_all_chats is called in run_cleaner every chat of the
\* list verify_chat_records fetched has been verified, and no chat that
\* the verification left inactive is in the list the sweep fetches.
C29_VerifiedBeforeSweep ==
    sweep_result.state # "none"
    => /\ verify_idx > Len(all_chats)
       /\ \A c \in ChatIds :
            (checked[c].verdict # "none" /\ ~checked[c].active)
            => c \notin SweptIds

\* the sweep swept one chat and not the one the verification had found the
\* bot removed from
C29_Witness ==
    /\ sweep_result.state = "returned"
    /\ SweptIds # {}
    /\ \E c \in ChatIds :
         /\ checked[c].verdict \in {"gone", "not_admin", "migrated"}
         /\ ~checked[c].active
         /\ c \notin SweptIds

\* C30: once verify_chat_records has gone through its list, every chat of
\* it for which get_chat succeeded and in which the bot is administrator or
\* creator, or which is private, is active, and so is every chat whose
\* check failed with NetworkError or TimedOut.
C30_ValidChatsStayActive ==
    (main_pc = "verify" /\ verify_idx > Len(all_chats))
    => \A c \in ChatIds :
         /\ (/\ checked[c].get_chat = "ok"
             /\ \/ TelegramType(c) = "private"
                \/ checked[c].status \in {"administrator", "creator"})
            => c \in registry
         /\ checked[c].verdict = "network" => c \in registry

\* C31: when a run in which no collaborator call failed has returned, the
\* statistics get_deletion_stats builds from the audit log agree with the
\* counters of the run: success is deleted_messages and error is
\* error_messages, whether dry_run is on or off.
C31_AuditLogAgreesWithCounters ==
    (pc = "returned" /\ faults = 0)
    => /\ get_deletion_stats(deletion_history).success = stats.deleted_messages
       /\ get_deletion_stats(deletion_history).error = stats.error_messages

\* The thresholds Executor.__init__ reads from the loaded configuration.
Thresholds == <<loaded_config.user_messages, loaded_config.all_messages>>

\* C32: once the configuration was loaded from values whose other required
\* fields are set, loading has succeeded and each threshold is the
\* configured value when that is greater than 0 and its default (60, 1440)
\* when it is 0 or negative.
C32_NonPositiveThresholdDefaults ==
    (/\ load_state # "none"
     /\ settings.owner_id # 0
     /\ settings.bot_token # "")
    => /\ load_state = "loaded"
       /\ Thresholds[1] = IF settings.user_messages <= 0
                          THEN DefaultUserMessages
                          ELSE settings.user_messages
       /\ Thresholds[2] = IF settings.all_messages <= 0
                          THEN DefaultAllMessages
                          ELSE settings.all_messages

\* The message UpdateAlert held before the i-th send_update (0: none).
HeldBefore(i) == IF i = 1 THEN 0 ELSE snapshots[i - 1].message_id

\* The send_message calls of the run so far.
ProgressMessages ==
    {p \in (1..Len(snapshots)) \X {1, 2} :
        /\ p[2] <= Len(snapshots[p[1]].calls)
        /\ snapshots[p[1]].calls[p[2]].op = "send_message"}

\* C33: a send_update that holds no message calls send_message; one that
\* holds a message calls edit_message_text for that message, and calls
\* send_message after it exactly when the edit failed with a TelegramError;
\* the message held afterwards is the new one when a send_message
\* succeeded and the one held before otherwise.  A run that has returned
\* without a failed call has sent exactly one progress message.
C33_OneProgressMessageEdited ==
    /\ \A i \in 1..Len(snapshots) :
         LET s == snapshots[i]
             held == HeldBefore(i)
             final == s.calls[Len(s.calls)]
         IN /\ s.calls[1].op = IF held = 0 THEN "send_message"
                               ELSE "edit_message_text"
            /\ held # 0 => s.calls[1].id = held
            /\ Len(s.calls) = 2
               <=> (held # 0 /\ ~s.calls[1].ok /\ s.result # "raised")
            /\ Len(s.calls) = 2 => s.calls[2].op = "send_message"
            /\ s.message_id = IF final.op = "send_message" /\ final.ok
                              THEN held + 1 ELSE held
    /\ (pc = "returned" /\ faults = 0 /\ snapshots # <<>>)
       => Cardinality(ProgressMessages) = 1 /\ message_id = 1

\* an edit failed, a new message was sent, and the next update edited the
\* new message
C33_Witness ==
    \E i \in 2..Len(snapshots) :
        /\ Len(snapshots[i - 1].calls) = 2
        /\ snapshots[i - 1].message_id = 2
        /\ snapshots[i].calls = <<[op |-> "edit_message_text", id |-> 2,
                                   ok |-> TRUE]>>

(***************************************************************************)
(* Properties of the in-memory deletion queue.                             *)
(***************************************************************************)
InQueue(kind, key) ==
    /\ key[1] \in DOMAIN Queue(kind)
    /\ key[2] \in DOMAIN Queue(kind)[key[1]]

Queued(key) == InQueue("user", key) \/ InQueue("bot", key)

\* deletion_task is suspended in the delete call of the message
BeingDeleted(key) ==
    task.pc = "delete" /\ task.chat_id = key[1] /\ task.msg_id = key[2]

\* C34: a message whose sender id or chat id is in the exceptions list is
\* never put in user_messages or bot_messages, and deletion_task never
\* issues a delete for it.
C34_ExceptedNeverQueued ==
    \A key \in MessageKeys :
        tracked[key].exempt
        => ~Queued(key) /\ tracked[key].queue = "none"
           /\ tracked[key].attempts = 0

\* C35: the deletion time recorded for a queued message is its arrival plus
\* user_timeout seconds (user message) or plus bot_timeout hours (bot
\* message), and a delete is issued for a message only at or after that
\* time.
C35_NotBeforeTimeout ==
    \A key \in MessageKeys :
        LET entry == tracked[key]
        IN /\ entry.deletion_time = entry.timeout_ends
           /\ Queued(key)
              => Queue(entry.queue)[key[1]][key[2]] = entry.timeout_ends
           /\ entry.attempts > 0 => wall_clock >= entry.timeout_ends

C35_Witness ==
    \E key \in MessageKeys :
        /\ tracked[key].attempts > 0
        /\ tracked[key].queue = "user"
        /\ tracked[key].timeout_ends >= SleepSeconds
        /\ \E other \in MessageKeys :
              InQueue("bot", other) /\ wall_clock < tracked[other].timeout_ends

\* C36: every queued message gets at most one delete attempt; once the
\* attempt has returned, with success or failure, the message is in no
\* queue; a message id of a chat is never in both queues.
C36_AtMostOneAttempt ==
    \A key \in MessageKeys :
        /\ tracked[key].attempts <= 1
        /\ (tracked[key].attempts = 1 /\ ~BeingDeleted(key)) => ~Queued(key)
        /\ ~(InQueue("user", key) /\ InQueue("bot", key))

C36_Witness ==
    \E key \in MessageKeys :
        /\ tracked[key].attempts = 1
        /\ ~tracked[key].cleared
        /\ task.pc = "msgs"
        /\ \E other \in MessageKeys : InQueue("bot", other)

\* C37: when /clear or the new-message handler runs while deletion_task is
\* suspended in a delete call, no missing-key error follows and the pass is
\* not aborted.
C37_NoMissingKey == aborts = 0

\* C38: a message that was queued and not cleared is eventually attempted
\* once its deletion time has passed, and does not stay in the queue.
C38_EventuallyAttempted ==
    \A key \in MessageKeys :
        (Queued(key) /\ wall_clock >= tracked[key].deletion_time)
        ~> (~Queued(key) /\ (tracked[key].attempts > 0 \/ tracked[key].cleared))

C38_Witness ==
    \E key \in MessageKeys :
        /\ Queued(key)
        /\ wall_clock >= tracked[key].deletion_time
        /\ tracked[key].attempts = 0
        /\ aborts > 0

====
